---------------------------- MODULE Spec2Model ----------------------------
(***************************************************************************)
(* The deliverable cache, the fallback generator and the orchestration     *)
(* driver of the email-drafting agent flow.                                *)
(*                                                                         *)
(* Strings are TLA+ strings; an optional string (string | null |           *)
(* undefined) is a record [kind, text]; an optional value of another type  *)
(* is a sequence of length 0 (absent) or 1.  A JavaScript object whose key *)
(* order matters (the metadata handed to JSON.stringify) carries its keys' *)
(* insertion order in the field "order".                                   *)
(***************************************************************************)
EXTENDS Integers, Sequences, FiniteSets, TLC

VARIABLES
    deliverablesByKey,  \* Map<string, EmailDraftDeliverable> of the store
    runOutcomeById,     \* Map<string, RunOutcome> of the store
    uuidsDrawn,         \* how many identifiers randomUUID() has handed out
    providerConfigured, \* Boolean(process.env.OPENAI_API_KEY)
    invocations,        \* the driver invocations: where each stands and what it returned
    last,               \* the store or generator call that completed last, with what it returned
    recordedUnder,      \* history: runId -> the cache keys a record under that runId stored
    computed,           \* history: the results of the pure functions called on their own
    sessions,           \* Map<string, SessionState> of the conversation store
    runs,               \* the runs store's list of RunSummary
    lastEvent,          \* the runs store's lastEvent
    chats               \* the chat requests: where each stands and the parts on its stream

vars == <<deliverablesByKey, runOutcomeById, uuidsDrawn, providerConfigured, invocations, last,
          recordedUnder, computed, sessions, runs, lastEvent, chats>>

-----------------------------------------------------------------------------
(* Optional values *)

Undefined == [kind |-> "undefined", text |-> ""]
Null == [kind |-> "null", text |-> ""]
Str(s) == [kind |-> "string", text |-> s]
None == <<>>
Some(x) == <<x>>

(* Map.set(k, v) on a map held as a function *)
MapSet(m, k, v) == [x \in DOMAIN m \cup {k} |-> IF x = k THEN v ELSE m[x]]
EmptyMap == [x \in {} |-> None]

-----------------------------------------------------------------------------
(* String helpers: the JavaScript string methods the code uses *)

RECURSIVE Join(_, _)
Join(parts, sep) ==
    IF Len(parts) = 0 THEN ""
    ELSE IF Len(parts) = 1 THEN parts[1]
    ELSE parts[1] \o sep \o Join(Tail(parts), sep)

CharAt(s, i) == SubSeq(s, i, i)


WhiteSpace == {" ", "\n", "\t"}
LowerLetters == "abcdefghijklmnopqrstuvwxyz"
UpperLetters == "ABCDEFGHIJKLMNOPQRSTUVWXYZ"
Digits == "0123456789"

IndexIn(alphabet, c) ==
    IF \E i \in 1..Len(alphabet) : CharAt(alphabet, i) = c
    THEN CHOOSE i \in 1..Len(alphabet) : CharAt(alphabet, i) = c
    ELSE 0

ToUpperChar(c) ==
    IF IndexIn(LowerLetters, c) > 0 THEN CharAt(UpperLetters, IndexIn(LowerLetters, c)) ELSE c
ToLowerChar(c) ==
    IF IndexIn(UpperLetters, c) > 0 THEN CharAt(LowerLetters, IndexIn(UpperLetters, c)) ELSE c

RECURSIVE ToLowerCase(_)
ToLowerCase(s) ==
    IF Len(s) = 0 THEN ""
    ELSE IF Len(s) = 1 THEN ToLowerChar(s)
    ELSE ToLowerCase(SubSeq(s, 1, Len(s) \div 2)) \o ToLowerCase(SubSeq(s, Len(s) \div 2 + 1, Len(s)))

RECURSIVE TrimStart(_)
TrimStart(s) ==
    IF Len(s) > 0 /\ CharAt(s, 1) \in WhiteSpace THEN TrimStart(SubSeq(s, 2, Len(s))) ELSE s

RECURSIVE TrimEnd(_)
TrimEnd(s) ==
    IF Len(s) > 0 /\ CharAt(s, Len(s)) \in WhiteSpace THEN TrimEnd(SubSeq(s, 1, Len(s) - 1)) ELSE s

Trim(s) == TrimEnd(TrimStart(s))

IsAlnum(c) == IndexIn(LowerLetters, c) > 0 \/ IndexIn(UpperLetters, c) > 0 \/ IndexIn(Digits, c) > 0

(* whether needle occurs in s starting at position i *)
StartsAt(s, i, needle) ==
    i + Len(needle) - 1 <= Len(s) /\ SubSeq(s, i, i + Len(needle) - 1) = needle

Contains(s, needle) == \E i \in 1..Len(s) : StartsAt(s, i, needle)

-----------------------------------------------------------------------------
(* The deliverable store *)

(* JSON.stringify of a string; the texts of this model hold no character that
   JSON escapes *)
JsonString(s) == "\"" \o s \o "\""

JsonArray(items) == "[" \o Join([i \in 1..Len(items) |-> JsonString(items[i])], ",") \o "]"

JsonOptional(o) == IF o.kind = "null" THEN "null" ELSE JsonString(o.text)

(* JSON.stringify of one property of the metadata object *)
JsonMember(metadata, key) ==
    JsonString(key) \o ":" \o
    (CASE key = "recipient" -> JsonString(metadata.recipient)
       [] key = "tone" -> JsonOptional(metadata.tone)
       [] key = "keyPoints" -> JsonArray(metadata.keyPoints)
       [] key = "additionalContext" -> JsonOptional(metadata.additionalContext))

(* a property whose value is undefined is left out by JSON.stringify *)
IsDefinedMember(metadata, key) ==
    CASE key = "tone" -> metadata.tone.kind # "undefined"
      [] key = "additionalContext" -> metadata.additionalContext.kind # "undefined"
      [] OTHER -> TRUE

(* JSON.stringify of the metadata: its properties in insertion order *)
JsonMetadata(metadata) ==
    LET present == SelectSeq(metadata.order, LAMBDA key : IsDefinedMember(metadata, key))
    IN "{" \o Join([i \in 1..Len(present) |-> JsonMember(metadata, present[i])], ",") \o "}"

(* JSON.stringify({ runId, metadata }) *)
JsonStringify(payload) ==
    "{\"runId\":" \o JsonString(payload.runId) \o ",\"metadata\":" \o JsonMetadata(payload.metadata) \o "}"

(* createHash("sha256").update(text).digest("hex"): distinct texts get distinct digests *)
Sha256Hex(text) == "sha256(" \o text \o ")"

computeDeliverableKey(payload) == Sha256Hex(JsonStringify(payload))

getEmailDeliverable(byKey, key) == IF key \in DOMAIN byKey THEN Some(byKey[key]) ELSE None

getRunOutcome(byId, runId) == IF runId \in DOMAIN byId THEN Some(byId[runId]) ELSE None

(* recordEmailDeliverable as it would be with the cache hit overwriting the entry *)
recordLastWriterWins(byKey, byId, runId, deliverable) ==
    LET Keyed(cacheKey) ==
            [byKey |-> MapSet(byKey, cacheKey, deliverable),
             byId |-> MapSet(byId, runId, [cacheKey |-> cacheKey,
                                           identicalToExisting |-> cacheKey \in DOMAIN byKey]),
             ret |-> [deliverable |-> deliverable, identicalToExisting |-> cacheKey \in DOMAIN byKey,
                      cacheKey |-> cacheKey]]
    IN Keyed(computeDeliverableKey([runId |-> runId, metadata |-> deliverable.metadata]))

(* recordEmailDeliverable as it would be with the cache hit returning before
   the RunOutcome is set *)
recordSkipsOutcomeOnHit(byKey, byId, runId, deliverable) ==
    LET Keyed(cacheKey) ==
            IF cacheKey \in DOMAIN byKey
            THEN [byKey |-> byKey, byId |-> byId,
                  ret |-> [deliverable |-> byKey[cacheKey], identicalToExisting |-> TRUE, cacheKey |-> cacheKey]]
            ELSE [byKey |-> MapSet(byKey, cacheKey, deliverable),
                  byId |-> MapSet(byId, runId, [cacheKey |-> cacheKey, identicalToExisting |-> FALSE]),
                  ret |-> [deliverable |-> deliverable, identicalToExisting |-> FALSE, cacheKey |-> cacheKey]]
    IN Keyed(computeDeliverableKey([runId |-> runId, metadata |-> deliverable.metadata]))

(* recordEmailDeliverable on the store (byKey, byId): the store afterwards and
   the value returned *)
recordEmailDeliverable(byKey, byId, runId, deliverable) ==
    LET Lookup(cacheKey, existing) ==
            IF existing # None
            THEN [byKey |-> byKey,
                  byId |-> MapSet(byId, runId, [cacheKey |-> cacheKey, identicalToExisting |-> TRUE]),
                  ret |-> [deliverable |-> existing[1], identicalToExisting |-> TRUE, cacheKey |-> cacheKey]]
            ELSE [byKey |-> MapSet(byKey, cacheKey, deliverable),
                  byId |-> MapSet(byId, runId, [cacheKey |-> cacheKey, identicalToExisting |-> FALSE]),
                  ret |-> [deliverable |-> deliverable, identicalToExisting |-> FALSE, cacheKey |-> cacheKey]]
        Keyed(cacheKey) == Lookup(cacheKey, getEmailDeliverable(byKey, cacheKey))
    IN Keyed(computeDeliverableKey([runId |-> runId, metadata |-> deliverable.metadata]))

-----------------------------------------------------------------------------
(* The zod schemas of models/email *)

MetadataKeys == <<"recipient", "tone", "keyPoints", "additionalContext">>

Range(seq) == {seq[i] : i \in 1..Len(seq)}

(* z.string().min(lo).max(hi).nullable().optional() *)
OptionalStringOk(o, lo, hi) ==
    o.kind \in {"undefined", "null"} \/ (Len(o.text) >= lo /\ Len(o.text) <= hi)

emailDraftVariantSchema(variant) == Len(variant.label) >= 3 /\ Len(variant.body) >= 10

emailDraftSchema(draft) ==
    /\ Len(draft.subject) >= 3
    /\ Len(draft.body) >= 25
    /\ draft.variants # None =>
         /\ Len(draft.variants[1]) <= 4
         /\ \A i \in 1..Len(draft.variants[1]) : emailDraftVariantSchema(draft.variants[1][i])

emailDraftDeliverableSchema(payload) ==
    /\ payload.type = "email-draft"
    /\ emailDraftSchema(payload.draft)
    /\ Range(payload.metadata.order) \subseteq Range(MetadataKeys)
    /\ {"recipient", "keyPoints"} \subseteq Range(payload.metadata.order)
    /\ Len(payload.metadata.recipient) >= 2
    /\ OptionalStringOk(payload.metadata.tone, 3, 32)
    /\ Len(payload.metadata.keyPoints) >= 1
    /\ \A i \in 1..Len(payload.metadata.keyPoints) : Len(payload.metadata.keyPoints[i]) >= 3
    /\ OptionalStringOk(payload.metadata.additionalContext, 0, 2000)

(* what emailDraftDeliverableSchema.parse returns for a payload it accepts:
   the properties in the schema's order, draft.variants defaulted to [] *)
normalizeEmailDeliverable(payload) ==
    [type |-> payload.type,
     draft |-> [subject |-> payload.draft.subject,
                body |-> payload.draft.body,
                variants |-> IF payload.draft.variants = None THEN <<>> ELSE payload.draft.variants[1]],
     metadata |-> [payload.metadata EXCEPT
                     !.order = SelectSeq(MetadataKeys, LAMBDA key : key \in Range(payload.metadata.order))]]

(* a typed deliverable as the payload handed to reportEmailDraft *)
AsPayload(deliverable) ==
    [deliverable EXCEPT !.draft = [deliverable.draft EXCEPT !.variants = Some(deliverable.draft.variants)]]

(* reportEmailDraft: threw when the run identifier is missing or the payload
   fails the schema, and then the store is as before *)
reportEmailDraft(byKey, byId, payload, runId) ==
    IF runId = "" \/ ~emailDraftDeliverableSchema(payload)
    THEN [byKey |-> byKey, byId |-> byId, threw |-> TRUE, ret |-> None]
    ELSE LET Reported(recorded) ==
                 [byKey |-> recorded.byKey, byId |-> recorded.byId, threw |-> FALSE, ret |-> Some(recorded.ret)]
         IN Reported(recordEmailDeliverable(byKey, byId, runId, normalizeEmailDeliverable(payload)))

-----------------------------------------------------------------------------
(* The fallback generator *)

normalizeSentence(text) ==
    LET trimmed == Trim(text)
        capitalized == ToUpperChar(CharAt(trimmed, 1)) \o SubSeq(trimmed, 2, Len(trimmed))
    IN IF trimmed = "" THEN ""
       ELSE IF CharAt(capitalized, Len(capitalized)) \in {".", "!", "?"} THEN capitalized
       ELSE capitalized \o "."

chooseTone(tone) ==
    LET normalized == IF tone.kind = "string" THEN Trim(ToLowerCase(tone.text)) ELSE ""
    IN CASE tone.kind = "string" /\ normalized \in {"friendly", "warm"} ->
              [greeting |-> "Hi", signOff |-> "Warm regards", voice |-> "friendly"]
         [] tone.kind = "string" /\ normalized = "formal" ->
              [greeting |-> "Hello", signOff |-> "Sincerely", voice |-> "formal"]
         [] tone.kind = "string" /\ normalized = "direct" ->
              [greeting |-> "Hello", signOff |-> "Regards", voice |-> "direct"]
         [] tone.kind = "string" /\ normalized = "enthusiastic" ->
              [greeting |-> "Hey", signOff |-> "Cheers", voice |-> "enthusiastic"]
         [] OTHER ->
              [greeting |-> "Hello", signOff |-> "Best regards", voice |-> "neutral"]

(* text.replace(/^[^a-zA-Z0-9]+/, "") *)
RECURSIVE StripLeadingNonAlnum(_)
StripLeadingNonAlnum(s) ==
    IF Len(s) > 0 /\ ~IsAlnum(CharAt(s, 1)) THEN StripLeadingNonAlnum(SubSeq(s, 2, Len(s))) ELSE s

(* text.replace(/[.!?]+$/, "") *)
RECURSIVE StripTrailingPunctuation(_)
StripTrailingPunctuation(s) ==
    IF Len(s) > 0 /\ CharAt(s, Len(s)) \in {".", "!", "?"}
    THEN StripTrailingPunctuation(SubSeq(s, 1, Len(s) - 1))
    ELSE s

buildSubject(input) ==
    LET focus == IF Len(input.keyPoints) > 0 THEN input.keyPoints[1] ELSE "next steps"
        cleaned == Trim(StripTrailingPunctuation(StripLeadingNonAlnum(focus)))
        prefix == IF input.recipient # "" THEN "For " \o input.recipient \o ": " ELSE ""
    IN prefix \o (IF Len(cleaned) > 0 THEN cleaned ELSE "Next steps")

bulletList(points) ==
    LET kept == SelectSeq(points, LAMBDA point : Len(Trim(point)) > 0)
    IN Join([i \in 1..Len(kept) |-> "- " \o normalizeSentence(kept[i])], "\n")

buildPrimaryBody(input) ==
    LET tonePreset == chooseTone(Str(input.tone))
        greetingLine == tonePreset.greeting \o " " \o
                        (IF input.recipient # "" THEN input.recipient ELSE "there") \o ","
        intro == IF tonePreset.voice = "formal"
                 THEN "I hope you are well."
                 ELSE "I hope your day is going well."
        purpose == normalizeSentence(
                     IF input.additionalContext.kind = "string"
                     THEN input.additionalContext.text
                     ELSE "I wanted to summarize the plan so we can keep momentum on the request")
        bullets == bulletList(input.keyPoints)
        closingPrompt ==
            IF tonePreset.voice = "direct"
            THEN "Let me know if anything needs adjustment so I can update immediately."
            ELSE "Please let me know if anything needs refining or if you'd like to discuss details."
        lines == << greetingLine,
                    "",
                    Trim(intro \o " " \o purpose),
                    "",
                    "Here are the talking points we'll highlight:",
                    bullets,
                    "",
                    closingPrompt,
                    "",
                    tonePreset.signOff \o ",",
                    "SideKick OS Assistant" >>
    IN Join(SelectSeq(lines, LAMBDA line : line # ""), "\n")

(* the label and body pairs buildVariantBodies slices *)
labelledVariants(input) ==
    LET sentences == [i \in 1..Len(input.keyPoints) |-> normalizeSentence(input.keyPoints[i])]
    IN <<
            [label |-> "Concise recap",
             body |-> Join(<< chooseTone(Str(input.tone)).greeting \o " " \o
                                (IF input.recipient # "" THEN input.recipient ELSE "there") \o ",",
                              "",
                              "Quick recap of what we'll cover: " \o Join(sentences, " "),
                              "",
                              "Appreciate your feedback on any lingering items.",
                              "",
                              chooseTone(Str(input.tone)).signOff \o ",",
                              "SideKick OS Assistant" >>, "\n")],
            [label |-> "Action-focused",
             body |-> Join(<< chooseTone(Str("direct")).greeting \o " " \o
                                (IF input.recipient # "" THEN input.recipient ELSE "team") \o ",",
                              "",
                              "Here's the plan of action:",
                              bulletList(input.keyPoints),
                              "",
                              "I'll send a finalized version after your review.",
                              "",
                              chooseTone(Str("direct")).signOff \o ",",
                              "SideKick OS Assistant" >>, "\n")],
            [label |-> "Relationship-first",
             body |-> Join(<< chooseTone(Str("friendly")).greeting \o " " \o
                                (IF input.recipient # "" THEN input.recipient ELSE "there") \o ",",
                              "",
                              "Appreciate the opportunity to collaborate. Key notes I'll weave in:",
                              bulletList(input.keyPoints),
                              "",
                              "Happy to adjust tone or detail based on your perspective.",
                              "",
                              chooseTone(Str("friendly")).signOff \o ",",
                              "SideKick OS Assistant" >>, "\n")] >>

(* buildVariantBodies as it would be without the slice: all three variants *)
buildVariantBodiesUnsliced(input) == labelledVariants(input)

(* buildVariantBodies: variants.slice(0, input.variants ?? 2) *)
buildVariantBodies(input) ==
    LET Slice(seq, end) == SubSeq(seq, 1, IF end < Len(seq) THEN end ELSE Len(seq))
    IN Slice(labelledVariants(input), IF input.variants = None THEN 2 ELSE input.variants[1])

(* buildDeliverable: None when emailDraftSchema.parse throws *)
buildDeliverable(input) ==
    LET Typed(draft) ==
            IF ~emailDraftSchema(draft) THEN None
            ELSE Some([type |-> "email-draft",
                       draft |-> [draft EXCEPT !.variants = draft.variants[1]],
                       metadata |-> [order |-> MetadataKeys,
                                     recipient |-> input.recipient,
                                     tone |-> Str(input.tone),
                                     keyPoints |-> input.keyPoints,
                                     additionalContext |-> input.additionalContext]])
    IN Typed([subject |-> buildSubject(input),
              body |-> buildPrimaryBody(input),
              variants |-> Some(buildVariantBodies(input))])

-----------------------------------------------------------------------------
(* The driver's validation and guardrail *)

(* emailDraftAgentInputSchema.safeParse(payload).success *)
emailDraftAgentInputSchema(payload) ==
    /\ ~payload.extraKeys
    /\ payload.recipient.kind = "string" /\ Len(payload.recipient.text) >= 2
    /\ payload.tone.kind = "string" /\ Len(payload.tone.text) >= 3
    /\ payload.keyPoints # None
    /\ Len(payload.keyPoints[1]) >= 1
    /\ \A i \in 1..Len(payload.keyPoints[1]) : Len(payload.keyPoints[1][i]) >= 3
    /\ \/ payload.additionalContext.kind = "undefined"
       \/ payload.additionalContext.kind = "string" /\ Len(payload.additionalContext.text) <= 2000
    /\ payload.variants # None => payload.variants[1] \in 1..3

(* parsed.data of a payload the schema accepts: variants defaulted to 2 *)
ParsedData(payload) ==
    [recipient |-> payload.recipient.text,
     tone |-> payload.tone.text,
     keyPoints |-> payload.keyPoints[1],
     additionalContext |-> payload.additionalContext,
     variants |-> IF payload.variants = None THEN Some(2) ELSE payload.variants]

(* /credit\s*card/i on a lowercased text *)
MatchesCreditCard(text) ==
    \E i \in 1..Len(text), j \in 1..Len(text) :
        /\ StartsAt(text, i, "credit")
        /\ j >= i + 6
        /\ \A k \in (i + 6)..(j - 1) : CharAt(text, k) \in WhiteSpace
        /\ StartsAt(text, j, "card")

(* SENSITIVE_PATTERNS.find(pattern => pattern.test(text)) finds one *)
MatchesSensitivePattern(text) ==
    LET lowered == ToLowerCase(text)
    IN Contains(lowered, "ssn") \/ Contains(lowered, "password") \/ MatchesCreditCard(lowered)

(* runGuardrails(input).ok *)
runGuardrails(input) ==
    LET fields == <<input.recipient, input.tone>>
                  \o (IF input.additionalContext.kind = "string"
                      THEN <<input.additionalContext.text>> ELSE <<>>)
                  \o input.keyPoints
        joined == Join(SelectSeq(fields, LAMBDA field : field # ""), " \n")
    IN ~MatchesSensitivePattern(joined)

SensitiveReason == "Request appears to contain sensitive information. Please remove it before continuing."

-----------------------------------------------------------------------------
(* The inputs the operations are called with *)

MaxToolCalls == 2    \* tool calls the agent runtime may make in one run

LongTone == "warm and friendly but also concise"

BasePayload ==
    [recipient |-> Str("Alex Rivera"),
     tone |-> Str("friendly"),
     keyPoints |-> Some(<<"Confirm deployment timeline", "Highlight compliance summary">>),
     additionalContext |-> Str("Reference the updated pricing schedule from 11/10."),
     variants |-> Some(2),
     extraKeys |-> FALSE]

(* request payloads: the tests' base input, a tone of 34 characters, a key
   point, a recipient, a tone and a context the guardrail flags, and no key
   points *)
Payloads ==
    { BasePayload,
      [BasePayload EXCEPT !.tone = Str(LongTone)],
      [BasePayload EXCEPT !.keyPoints = Some(<<"Share password details">>)],
      [BasePayload EXCEPT !.recipient = Str("Password Team")],
      [BasePayload EXCEPT !.tone = Str("SSN style")],
      [BasePayload EXCEPT !.additionalContext = Str("Pay by credit  card on file.")],
      [BasePayload EXCEPT !.keyPoints = Some(<<>>)] }

BaseInput == ParsedData(BasePayload)

(* the inputs the input schema lets through *)
Inputs == {ParsedData(payload) : payload \in {p \in Payloads : emailDraftAgentInputSchema(p)}}

(* the inputs the tests hand to the generator directly *)
StoreInputs == {BaseInput, [BaseInput EXCEPT !.tone = LongTone]}

RunIds == {"cached-run", "test-run"}

BaseMetadata ==
    [order |-> MetadataKeys,
     recipient |-> BaseInput.recipient,
     tone |-> Str(BaseInput.tone),
     keyPoints |-> BaseInput.keyPoints,
     additionalContext |-> BaseInput.additionalContext]

AgentDraft ==
    [subject |-> "Deployment timeline",
     body |-> "Hi Alex, here is the deployment timeline and the compliance summary.",
     variants |-> <<>>]

(* deliverables handed to recordEmailDeliverable: the same metadata with two
   draft texts, and another tone *)
Deliverables ==
    { [type |-> "email-draft", draft |-> AgentDraft, metadata |-> BaseMetadata],
      [type |-> "email-draft",
       draft |-> [AgentDraft EXCEPT !.body = "Hello Alex, the timeline is confirmed; compliance summary attached."],
       metadata |-> BaseMetadata],
      [type |-> "email-draft", draft |-> AgentDraft,
       metadata |-> [BaseMetadata EXCEPT !.tone = Str("formal")]] }

(* what the model hands to report_result: a deliverable, one with another
   tone, one with its metadata keys in another order, and a draft the schema refuses *)
AgentPayloads ==
    { AsPayload([type |-> "email-draft", draft |-> AgentDraft, metadata |-> BaseMetadata]),
      AsPayload([type |-> "email-draft", draft |-> AgentDraft,
                 metadata |-> [BaseMetadata EXCEPT !.tone = Str("formal")]]),
      AsPayload([type |-> "email-draft", draft |-> AgentDraft,
                 metadata |-> [BaseMetadata EXCEPT
                                 !.order = <<"keyPoints", "recipient", "tone", "additionalContext">>]]),
      AsPayload([type |-> "email-draft", draft |-> [AgentDraft EXCEPT !.body = "too short"],
                 metadata |-> BaseMetadata]) }

(* buildDeliverable, the input schema and the guardrail are pure functions of
   their argument: their values on the inputs above *)
BuiltDeliverable == [input \in Inputs |-> buildDeliverable(input)]
SchemaAccepts == [payload \in Payloads |-> emailDraftAgentInputSchema(payload)]
(* the guardrail as it would be if the driver did not run it *)
GuardrailSkipped == [input \in Inputs |-> TRUE]

GuardrailPasses == [input \in Inputs |-> runGuardrails(input)]

(* randomUUID(): the n-th identifier drawn *)
randomUUID(n) == "uuid-" \o ToString(n)

(* createRuntimeContext as it would be with one identifier handed to every
   context that is given none *)
createRuntimeContextReusingRunId(runIdOverride, drawn) ==
    [runId |-> IF runIdOverride = None THEN randomUUID(1) ELSE runIdOverride[1],
     drawn |-> IF runIdOverride = None THEN drawn + 1 ELSE drawn]

(* createRuntimeContext: runId ?? randomUUID() *)
createRuntimeContext(runIdOverride, drawn) ==
    [runId |-> IF runIdOverride = None THEN randomUUID(drawn + 1) ELSE runIdOverride[1],
     drawn |-> IF runIdOverride = None THEN drawn + 1 ELSE drawn]

(* runEmailDraftFallback on the store (byKey, byId), with `drawn` identifiers
   drawn so far: the store afterwards, whether it threw, and what it returned *)
runEmailDraftFallback(byKey, byId, input, runIdOverride, drawn) ==
    LET Returned(context, outcome) ==
            [byKey |-> outcome.byKey, byId |-> outcome.byId, threw |-> outcome.threw,
             ret |-> outcome.ret, runId |-> context.runId, drawn |-> context.drawn]
        Run(context, deliverable) ==
            Returned(context,
                     IF deliverable = None
                     THEN [byKey |-> byKey, byId |-> byId, threw |-> TRUE, ret |-> None]
                     ELSE reportEmailDraft(byKey, byId, AsPayload(deliverable[1]), context.runId))
    IN Run(createRuntimeContext(runIdOverride, drawn), BuiltDeliverable[input])

-----------------------------------------------------------------------------
(* payloads computeDeliverableKey is called on *)
KeyPayloads ==
    { [runId |-> runId, metadata |-> metadata] :
        runId \in RunIds,
        metadata \in { BaseMetadata,
                       [BaseMetadata EXCEPT !.order = <<"keyPoints", "recipient", "tone", "additionalContext">>],
                       [BaseMetadata EXCEPT !.tone = Str("formal")],
                       [BaseMetadata EXCEPT !.additionalContext = Undefined],
                       [BaseMetadata EXCEPT !.additionalContext = Undefined,
                                            !.order = <<"recipient", "tone", "keyPoints">>] } }

-----------------------------------------------------------------------------
(* The state after the modules are loaded *)

Invocations == {"first", "second"}

(* a driver invocation: pc is idle, awaiting (at `await runner.run`) or done;
   orchestration tells how runViaOrchestrator ended; startedAfter holds the
   invocations that had returned when this one was called; recorded holds the
   deliverables the report_result calls of its agent run returned, stored the
   cache keys and outcomes the runIds its calls added to the two maps *)
Idle == [pc |-> "idle", payload |-> None, input |-> None, runId |-> "", specialistRunId |-> None,
         toolCalls |-> 0, orchestration |-> "not-run", startedAfter |-> {}, response |-> None, http |-> None,
         recorded |-> {}, stored |-> {}, outcomes |-> {}]

(* the chat requests POST /api/chat is called with *)
ChatRequests == {"turn-1", "turn-2"}

(* a chat request not made yet; storeBefore is history: the sessions when the
   request came in *)
NoChat ==
    [pc |-> "idle", status |-> 0, threadId |-> "", userText |-> "", messageId |-> "",
     historyWithUser |-> <<>>, stream |-> <<>>, outcome |-> "", storeBefore |-> None]

(* no call yet; tick tells a call from the same call made again *)
NoCall == [op |-> "none", runId |-> "", arg |-> None, ret |-> None, threw |-> FALSE, tick |-> 0]

Init ==
    /\ deliverablesByKey = EmptyMap
    /\ runOutcomeById = EmptyMap
    /\ uuidsDrawn = 0
    /\ providerConfigured \in BOOLEAN
    /\ invocations = [i \in Invocations |-> Idle]
    /\ last = NoCall
    /\ recordedUnder = EmptyMap
    /\ computed = {}
    /\ sessions = EmptyMap
    /\ runs = <<>>
    /\ lastEvent = None
    /\ chats = [c \in ChatRequests |-> NoChat]

(* the history of which keys were stored under which runId, after a record
   under runId returned ret *)
RecordedAfter(history, runId, ret) ==
    IF ret = None \/ ret[1].identicalToExisting THEN history
    ELSE MapSet(history, runId,
                (IF runId \in DOMAIN history THEN history[runId] ELSE {}) \cup {ret[1].cacheKey})

-----------------------------------------------------------------------------
(* Calls on the store and the generator, as the tests make them *)

Record(runId, deliverable) ==
    \E recorded \in {recordEmailDeliverable(deliverablesByKey, runOutcomeById, runId, deliverable)} :
       /\ deliverablesByKey' = recorded.byKey
       /\ runOutcomeById' = recorded.byId
       /\ last' = [op |-> "record", runId |-> runId, arg |-> Some(deliverable),
                   ret |-> Some(recorded.ret), threw |-> FALSE, tick |-> 1 - last.tick]
       /\ recordedUnder' = RecordedAfter(recordedUnder, runId, Some(recorded.ret))
       /\ UNCHANGED <<uuidsDrawn, providerConfigured, invocations, computed, sessions, runs, lastEvent, chats>>

Fallback(input, runIdOverride) ==
    \E fallback \in {runEmailDraftFallback(deliverablesByKey, runOutcomeById, input, runIdOverride, uuidsDrawn)} :
       /\ deliverablesByKey' = fallback.byKey
       /\ runOutcomeById' = fallback.byId
       /\ uuidsDrawn' = fallback.drawn
       /\ last' = [op |-> "fallback", runId |-> fallback.runId, arg |-> Some(input),
                   ret |-> fallback.ret, threw |-> fallback.threw, tick |-> 1 - last.tick]
       /\ recordedUnder' = RecordedAfter(recordedUnder, fallback.runId, fallback.ret)
       /\ UNCHANGED <<providerConfigured, invocations, computed, sessions, runs, lastEvent, chats>>

Get(key) ==
    /\ last' = [op |-> "get", runId |-> "", arg |-> Some(key),
                ret |-> getEmailDeliverable(deliverablesByKey, key), threw |-> FALSE,
                tick |-> 1 - last.tick]
    /\ UNCHANGED <<deliverablesByKey, runOutcomeById, uuidsDrawn, providerConfigured, invocations,
                   recordedUnder, computed, sessions, runs, lastEvent, chats>>

GetOutcome(runId) ==
    /\ last' = [op |-> "getOutcome", runId |-> runId, arg |-> None,
                ret |-> getRunOutcome(runOutcomeById, runId), threw |-> FALSE,
                tick |-> 1 - last.tick]
    /\ UNCHANGED <<deliverablesByKey, runOutcomeById, uuidsDrawn, providerConfigured, invocations,
                   recordedUnder, computed, sessions, runs, lastEvent, chats>>

(* resetDeliverables as it would be if it cleared the cache only *)
resetDeliverablesKeepsOutcomes ==
    /\ deliverablesByKey' = EmptyMap
    /\ last' = [NoCall EXCEPT !.op = "reset", !.tick = 1 - last.tick]
    /\ UNCHANGED <<runOutcomeById, recordedUnder, uuidsDrawn, providerConfigured, invocations, computed,
                   sessions, runs, lastEvent, chats>>

resetDeliverables ==
    /\ deliverablesByKey' = EmptyMap
    /\ runOutcomeById' = EmptyMap
    /\ recordedUnder' = EmptyMap
    /\ last' = [NoCall EXCEPT !.op = "reset", !.tick = 1 - last.tick]
    /\ UNCHANGED <<uuidsDrawn, providerConfigured, invocations, computed, sessions, runs, lastEvent, chats>>

NextStore ==
    \/ \E runId \in RunIds, deliverable \in Deliverables : Record(runId, deliverable)
    \/ \E input \in StoreInputs, runId \in RunIds : Fallback(input, Some(runId))
    \/ \E key \in DOMAIN deliverablesByKey \cup {"no-such-key"} : Get(key)
    \/ \E runId \in RunIds : GetOutcome(runId)
    \/ resetDeliverables

SpecStore == Init /\ [][NextStore]_vars

(* computeDeliverableKey called on its own *)
ComputeKey(payload) ==
    /\ computed' = computed \cup {[payload |-> payload, key |-> computeDeliverableKey(payload)]}
    /\ UNCHANGED <<deliverablesByKey, runOutcomeById, uuidsDrawn, providerConfigured, invocations,
                   last, recordedUnder, sessions, runs, lastEvent, chats>>

NextKey == \E payload \in KeyPayloads : ComputeKey(payload)

SpecKey == Init /\ [][NextKey]_vars

-----------------------------------------------------------------------------
(* The generator called on its own *)

(* request payloads that differ in the variants count, omitted, in and out of
   the schema's range, and in the tone *)
GeneratorPayloads ==
    {[BasePayload EXCEPT !.variants = count, !.tone = Str(tone)] :
        count \in {None, Some(0), Some(1), Some(2), Some(3), Some(4)},
        tone \in {"friendly", LongTone}}

(* buildDeliverable called on the parsed data of a payload the schema accepts *)
Build(payload) ==
    /\ emailDraftAgentInputSchema(payload)
    /\ \E deliverable \in {buildDeliverable(ParsedData(payload))} :
           computed' = computed \cup {[payload |-> payload, deliverable |-> deliverable]}
    /\ UNCHANGED <<deliverablesByKey, runOutcomeById, uuidsDrawn, providerConfigured, invocations,
                   last, recordedUnder, sessions, runs, lastEvent, chats>>

NextGenerator == \E payload \in GeneratorPayloads : Build(payload)

SpecGenerator == Init /\ [][NextGenerator]_vars

-----------------------------------------------------------------------------
(* The runs store: setRuns, upsertRun, applyEvent *)

ActivityStatuses == {"queued", "running", "done", "error"}

RunStoreIds == {"run-1", "run-2"}

(* the startedAt strings of the listed runs and of the runs of the events:
   an instant, spelled in two ways, and a later one *)
ListedStartedAts == {"2024-01-01T12:00:00Z", "2024-01-02T12:00:00Z"}

EventStartedAts == {"2024-01-01T12:00:00.000Z", "2024-01-02T12:00:00Z"}

(* new Date(iso).getTime(), in milliseconds counted from 2024-01-01T00:00:00Z *)
getTime(iso) ==
    CASE iso = "2024-01-01T12:00:00Z" -> 43200000
      [] iso = "2024-01-01T12:00:00.000Z" -> 43200000
      [] iso = "2024-01-02T12:00:00Z" -> 129600000
      [] iso = "2024-01-02T12:00:01Z" -> 129601000

(* Date.now() at the time an event is applied, as an instant *)
Nows == {"2024-01-02T12:00:01Z"}

(* toSummary of an ActivityRun, with Date.now() = getTime(now) *)
toSummary(run, now) ==
    [id |-> run.id,
     name |-> run.name,
     status |-> run.status,
     startedAt |-> run.startedAt,
     durationMs |-> IF (IF run.completedAt # None THEN getTime(run.completedAt[1]) ELSE getTime(now))
                        - getTime(run.startedAt) > 0
                    THEN (IF run.completedAt # None THEN getTime(run.completedAt[1]) ELSE getTime(now))
                         - getTime(run.startedAt)
                    ELSE 0]

(* coerceStatus with `existing` defined *)
coerceStatus(existing, next) ==
    IF existing = "error" THEN "error"
    ELSE IF existing = "done" /\ next = "running" THEN existing
    ELSE next

(* one step of the stable sort: summary goes behind the summaries of `sorted`
   that do not start earlier than it *)
InsertByStarted(sorted, summary) ==
    \* the comparator b - a is not positive for the summaries that stay in front
    LET front == Cardinality({i \in 1..Len(sorted) :
                                 getTime(sorted[i].startedAt) >= getTime(summary.startedAt)})
    IN SubSeq(sorted, 1, front) \o <<summary>> \o SubSeq(sorted, front + 1, Len(sorted))

(* sortByStarted as it would be without the sort *)
sortByStartedUnsorted(list) == list

(* sortByStarted: a copy of the list, stable-sorted by startedAt descending *)
RECURSIVE sortByStarted(_)
sortByStarted(list) ==
    IF list = <<>> THEN <<>>
    ELSE InsertByStarted(sortByStarted(SubSeq(list, 1, Len(list) - 1)), list[Len(list)])

(* runs.findIndex(item => item.id === id), 0 for -1 *)
findIndex(list, id) ==
    IF \E i \in 1..Len(list) : list[i].id = id
    THEN CHOOSE i \in 1..Len(list) : list[i].id = id /\ \A j \in 1..(i - 1) : list[j].id # id
    ELSE 0

(* the copy of the list with the summary pushed, or put at the index findIndex found *)
Upserted(list, summary) ==
    IF findIndex(list, summary.id) = 0 THEN Append(list, summary)
    ELSE [list EXCEPT ![findIndex(list, summary.id)] = summary]

(* the step.logged branch of applyEvent: the runs afterwards *)
stepLogged(list, event) ==
    [i \in 1..Len(list) |->
        IF list[i].id = event.runId
        THEN [list[i] EXCEPT !.status = coerceStatus(list[i].status, event.stepStatus)]
        ELSE list[i]]

(* the run.updated and run.completed branch of applyEvent as it would be if
   it pushed the summary whatever the list holds *)
runUpsertedAlwaysPushes(list, event, now) ==
    sortByStarted(Append(list, toSummary(event.run[1], now)))

(* the run.updated and run.completed branch of applyEvent: the runs afterwards *)
runUpserted(list, event, now) ==
    sortByStarted(Upserted(list, toSummary(event.run[1], now)))

(* the summaries of the runs the application lists, as in the tests: a
   running or a done run of either id *)
RunSummaries ==
    {[id |-> id, name |-> "Test Run", status |-> status, startedAt |-> startedAt, durationMs |-> 1000] :
        id \in RunStoreIds, status \in {"running", "done"}, startedAt \in ListedStartedAts}

(* the lists setRuns is called with: the runs of GET /api/runs, each listed once *)
RunLists ==
    {<<>>} \cup {<<summary>> : summary \in RunSummaries}
    \cup {<<first, second>> : first \in {summary \in RunSummaries : summary.id = "run-1"},
                               second \in {summary \in RunSummaries : summary.id = "run-2"}}
    \cup {<<second, first>> : first \in {summary \in RunSummaries : summary.id = "run-1"},
                               second \in {summary \in RunSummaries : summary.id = "run-2"}}

(* the ActivityRun of an event: a finished run carries completedAt *)
ActivityRuns ==
    {[id |-> id, name |-> "Test Run", status |-> status, startedAt |-> startedAt,
      completedAt |-> IF status \in {"done", "error"} THEN Some("2024-01-02T12:00:00Z") ELSE None] :
        id \in RunStoreIds, status \in ActivityStatuses, startedAt \in EventStartedAts}

(* the events of the activity stream: run.completed for the finished runs,
   run.updated for the others; a step.logged event may name a run the store
   does not hold *)
ActivityEvents ==
    {[type |-> "step.logged", runId |-> runId, stepStatus |-> status, run |-> None] :
        runId \in RunStoreIds \cup {"run-unknown"}, status \in ActivityStatuses}
    \cup {[type |-> IF run.completedAt # None THEN "run.completed" ELSE "run.updated",
            runId |-> run.id, stepStatus |-> run.status, run |-> Some(run)] : run \in ActivityRuns}

setRuns(list) ==
    /\ runs' = sortByStarted(list)
    /\ UNCHANGED <<deliverablesByKey, runOutcomeById, uuidsDrawn, providerConfigured, invocations,
                   last, recordedUnder, computed, sessions, lastEvent, chats>>

upsertRun(summary) ==
    /\ runs' = sortByStarted(Upserted(runs, summary))
    /\ UNCHANGED <<deliverablesByKey, runOutcomeById, uuidsDrawn, providerConfigured, invocations,
                   last, recordedUnder, computed, sessions, lastEvent, chats>>

applyEvent(event, now) ==
    /\ runs' = IF event.type = "step.logged" THEN stepLogged(runs, event)
               ELSE runUpserted(runs, event, now)
    /\ lastEvent' = Some(event)
    /\ last' = [NoCall EXCEPT !.op = "applyEvent", !.runId = event.runId, !.arg = Some(event),
                              !.ret = Some([index |-> findIndex(runs, event.runId)]),
                              !.tick = 1 - last.tick]
    /\ UNCHANGED <<deliverablesByKey, runOutcomeById, uuidsDrawn, providerConfigured, invocations,
                   recordedUnder, computed, sessions, chats>>

NextRuns ==
    \/ \E list \in RunLists : setRuns(list)
    \/ \E summary \in RunSummaries : upsertRun(summary)
    \/ \E event \in ActivityEvents, now \in Nows : applyEvent(event, now)

SpecRuns == Init /\ [][NextRuns]_vars

-----------------------------------------------------------------------------
(* The conversation store: getOrCreateSession, updateSessionHistory, resetSessions *)

MaxUuids == 5    \* identifiers randomUUID() may hand out to the conversation store

(* thread identifiers callers supply, and one no session was ever made for *)
ThreadIds == {"default-thread", "thread-a"}

StaleThreadId == "stale-thread"

(* the histories updateSessionHistory is called with *)
Histories == {<<>>, <<"user: draft an email">>, <<"user: draft an email", "assistant: done">>}

(* createRuntimeContext({ threadId: id }) under the run identifier drawn for it *)
SessionContext(id, runId) ==
    [runId |-> runId, threadId |-> id, workflowId |-> "email-draft", intent |-> "compose-email"]

(* getOrCreateSession as it would be without the lookup of an existing session *)
getOrCreateSessionAlwaysCreates(all, threadId, drawn) ==
    LET Create(id, context) ==
            [sessions |-> MapSet(all, id, [context |-> SessionContext(id, context.runId), history |-> <<>>]),
             id |-> id,
             session |-> [context |-> SessionContext(id, context.runId), history |-> <<>>],
             drawn |-> context.drawn]
    IN IF threadId = None
       THEN Create(randomUUID(drawn + 1), createRuntimeContext(None, drawn + 1))
       ELSE Create(threadId[1], createRuntimeContext(None, drawn))

(* getOrCreateSession on the sessions `all`, with `drawn` identifiers drawn so
   far: the sessions afterwards and the { id, session } returned *)
getOrCreateSession(all, threadId, drawn) ==
    LET Create(id, context) ==
            [sessions |-> MapSet(all, id, [context |-> SessionContext(id, context.runId), history |-> <<>>]),
             id |-> id,
             session |-> [context |-> SessionContext(id, context.runId), history |-> <<>>],
             drawn |-> context.drawn]
        Lookup(id, drawnAfterId) ==
            IF id \in DOMAIN all
            THEN [sessions |-> all, id |-> id, session |-> all[id], drawn |-> drawnAfterId]
            ELSE Create(id, createRuntimeContext(None, drawnAfterId))
    IN IF threadId = None
       THEN Lookup(randomUUID(drawn + 1), drawn + 1)
       ELSE Lookup(threadId[1], drawn)

(* updateSessionHistory as it would be if it made a session for an unknown threadId *)
updateSessionHistoryCreates(all, threadId, items) ==
    MapSet(all, threadId,
           [context |-> IF threadId \in DOMAIN all THEN all[threadId].context
                        ELSE SessionContext(threadId, ""),
            history |-> items])

(* updateSessionHistory: the sessions afterwards *)
updateSessionHistory(all, threadId, items) ==
    IF threadId \notin DOMAIN all THEN all
    ELSE [all EXCEPT ![threadId].history = items]

GetOrCreateSession(threadId) ==
    /\ uuidsDrawn + 2 <= MaxUuids
    /\ \E got \in {getOrCreateSession(sessions, threadId, uuidsDrawn)} :
          /\ sessions' = got.sessions
          /\ uuidsDrawn' = got.drawn
          /\ last' = [op |-> "getOrCreateSession", runId |-> "", arg |-> threadId,
                      ret |-> Some([id |-> got.id, session |-> got.session]), threw |-> FALSE,
                      tick |-> 1 - last.tick]
    /\ UNCHANGED <<deliverablesByKey, runOutcomeById, providerConfigured, invocations,
                   recordedUnder, computed, runs, lastEvent, chats>>

UpdateSessionHistory(threadId, items) ==
    /\ sessions' = updateSessionHistory(sessions, threadId, items)
    /\ last' = [op |-> "updateSessionHistory", runId |-> "", arg |-> Some([threadId |-> threadId, items |-> items]),
                ret |-> None, threw |-> FALSE, tick |-> 1 - last.tick]
    /\ UNCHANGED <<deliverablesByKey, runOutcomeById, uuidsDrawn, providerConfigured, invocations,
                   recordedUnder, computed, runs, lastEvent, chats>>

resetSessions ==
    /\ sessions' = EmptyMap
    /\ last' = [NoCall EXCEPT !.op = "resetSessions", !.tick = 1 - last.tick]
    /\ UNCHANGED <<deliverablesByKey, runOutcomeById, uuidsDrawn, providerConfigured, invocations,
                   recordedUnder, computed, runs, lastEvent, chats>>

NextSessions ==
    \/ \E threadId \in {None} \cup {Some(id) : id \in ThreadIds} : GetOrCreateSession(threadId)
    \/ \E threadId \in DOMAIN sessions \cup {StaleThreadId}, items \in Histories :
          UpdateSessionHistory(threadId, items)
    \/ resetSessions

SpecSessions == Init /\ [][NextSessions]_vars

-----------------------------------------------------------------------------
(* The driver: runEmailAgentFromPayload and runViaOrchestrator *)

(* parsed.error.errors.map(error => error.message).join("; ") *)
ValidationReason(payload) ==
    LET Short(o, lo, message) ==
            IF o.kind = "undefined" THEN <<"Required">>
            ELSE IF o.kind = "null" THEN <<"Expected string, received null">>
            ELSE IF Len(o.text) < lo THEN <<message>> ELSE <<>>
        points == IF payload.keyPoints = None THEN <<"Required">>
                  ELSE IF Len(payload.keyPoints[1]) = 0 THEN <<"List at least one key point.">>
                  ELSE [i \in 1..Len(SelectSeq(payload.keyPoints[1], LAMBDA point : Len(point) < 3))
                          |-> "String must contain at least 3 character(s)"]
        context == IF payload.additionalContext.kind = "null"
                   THEN <<"Expected string, received null">>
                   ELSE IF Len(payload.additionalContext.text) > 2000
                   THEN <<"String must contain at most 2000 character(s)">> ELSE <<>>
        count == IF payload.variants = None THEN <<>>
                 ELSE IF payload.variants[1] < 1 THEN <<"Number must be greater than or equal to 1">>
                 ELSE IF payload.variants[1] > 3 THEN <<"Number must be less than or equal to 3">>
                 ELSE <<>>
        extra == IF payload.extraKeys THEN <<"Unrecognized key(s) in object">> ELSE <<>>
    IN Join(Short(payload.recipient, 2, "Provide the recipient name or role.")
            \o Short(payload.tone, 3, "Tone should describe the style (e.g. warm, formal).")
            \o points \o context \o count \o extra, "; ")

NoResponse ==
    [ok |-> FALSE, threw |-> FALSE, reason |-> "", deliverable |-> None, identicalToExisting |-> FALSE,
     cacheKey |-> "", runId |-> "", providerConfigured |-> None, fallbackUsed |-> None]

(* { ok: false, reason, providerConfigured } *)
Rejected(reason, provider) ==
    [NoResponse EXCEPT !.reason = reason, !.providerConfigured = Some(provider)]

(* { ok: true, deliverable, identicalToExisting, cacheKey, runId, providerConfigured, fallbackUsed? } *)
Delivered(result, runId, provider, fallbackUsed) ==
    [NoResponse EXCEPT !.ok = TRUE, !.deliverable = Some(result.deliverable),
                       !.identicalToExisting = result.identicalToExisting,
                       !.cacheKey = result.cacheKey, !.runId = runId,
                       !.providerConfigured = Some(provider), !.fallbackUsed = fallbackUsed]

(* the driver's promise rejects: the error leaves runEmailAgentFromPayload *)
Thrown == [NoResponse EXCEPT !.threw = TRUE]

(* the response of the two places where the driver awaits runEmailDraftFallback *)
FallbackResponse(fallback, provider) ==
    IF fallback.threw THEN Thrown
    ELSE Delivered(fallback.ret[1], fallback.runId, provider, Some(TRUE))

(* a JSON body with none of its properties *)
NoBody ==
    [error |-> None, draft |-> None, metadata |-> None, cacheKey |-> None, runId |-> None,
     identicalToExisting |-> None, providerConfigured |-> None, fallbackUsed |-> None]

(* POST /api/agents/email from the driver's settled promise on: the status and
   the JSON body of the HTTP response *)
POST(response) ==
    IF response.threw
    THEN [status |-> 500, body |-> [NoBody EXCEPT !.error = Some("ZodError")]]
    ELSE IF ~response.ok
    THEN [status |-> 400,
          body |-> [NoBody EXCEPT
                      !.error = Some(response.reason),
                      !.providerConfigured = IF response.providerConfigured = None
                                             THEN Some(FALSE) ELSE response.providerConfigured]]
    ELSE [status |-> 200,
          body |-> [NoBody EXCEPT
                      !.draft = Some(response.deliverable[1].draft),
                      !.metadata = Some(response.deliverable[1].metadata),
                      !.cacheKey = Some(response.cacheKey),
                      !.runId = Some(response.runId),
                      !.identicalToExisting = Some(response.identicalToExisting),
                      !.providerConfigured = response.providerConfigured]]

(* runViaOrchestrator's result as it would be with identicalToExisting not
   taken from the RunOutcome *)
orchestratedResultStale(byKey, byId, runId) ==
    IF runId \notin DOMAIN byId \/ byId[runId].cacheKey \notin DOMAIN byKey THEN None
    ELSE Some([deliverable |-> byKey[byId[runId].cacheKey],
               identicalToExisting |-> FALSE,
               cacheKey |-> byId[runId].cacheKey,
               runId |-> runId])

(* runViaOrchestrator after `await runner.run` returned: the result, or None
   where it throws *)
orchestratedResult(byKey, byId, runId) ==
    LET Found(outcome, deliverable) ==
            IF deliverable = None THEN None
            ELSE Some([deliverable |-> deliverable[1],
                       identicalToExisting |-> outcome[1].identicalToExisting,
                       cacheKey |-> outcome[1].cacheKey,
                       runId |-> runId])
        Looked(outcome) ==
            IF outcome = None THEN None
            ELSE Found(outcome, getEmailDeliverable(byKey, outcome[1].cacheKey))
    IN Looked(getRunOutcome(byId, runId))

Done(i) == {j \in Invocations : invocations[j].pc = "done"}

(* the driver's catch block, and its branch for no provider: the fallback
   under a fresh run context, its outcome returned as the response *)
FallBack(i, input, orchestration, started) ==
    \E fallback \in {runEmailDraftFallback(deliverablesByKey, runOutcomeById, input, None, uuidsDrawn)} :
       /\ deliverablesByKey' = fallback.byKey
       /\ runOutcomeById' = fallback.byId
       /\ uuidsDrawn' = fallback.drawn
       /\ recordedUnder' = RecordedAfter(recordedUnder, fallback.runId, fallback.ret)
       /\ invocations' = [invocations EXCEPT ![i] =
              [started EXCEPT !.pc = "done", !.orchestration = orchestration,
                              !.specialistRunId = None,
                              !.stored = @ \cup (DOMAIN fallback.byKey \ DOMAIN deliverablesByKey),
                              !.outcomes = @ \cup (DOMAIN fallback.byId \ DOMAIN runOutcomeById),
                              !.response = Some(FallbackResponse(fallback, providerConfigured)),
                              !.http = Some(POST(FallbackResponse(fallback, providerConfigured)))]]

(* runEmailAgentFromPayload up to its first await that suspends, or to its end *)
Request(i, payload) ==
    LET started == [invocations[i] EXCEPT !.payload = Some(payload), !.startedAfter = Done(i)]
        input == ParsedData(payload)
        context == createRuntimeContext(None, uuidsDrawn)
    IN /\ invocations[i].pc = "idle"
       /\ i = "second" => invocations["first"].pc # "idle"
       /\ UNCHANGED <<providerConfigured, last, computed, sessions, runs, lastEvent, chats>>
       /\ IF ~SchemaAccepts[payload]
          THEN /\ invocations' = [invocations EXCEPT ![i] =
                     [started EXCEPT !.pc = "done",
                        !.response = Some(Rejected(ValidationReason(payload), providerConfigured)),
                        !.http = Some(POST(Rejected(ValidationReason(payload), providerConfigured)))]]
               /\ UNCHANGED <<deliverablesByKey, runOutcomeById, uuidsDrawn, recordedUnder>>
          ELSE IF ~GuardrailPasses[input]
          THEN /\ invocations' = [invocations EXCEPT ![i] =
                     [started EXCEPT !.pc = "done", !.input = Some(input),
                        !.response = Some(Rejected(SensitiveReason, providerConfigured)),
                        !.http = Some(POST(Rejected(SensitiveReason, providerConfigured)))]]
               /\ UNCHANGED <<deliverablesByKey, runOutcomeById, uuidsDrawn, recordedUnder>>
          ELSE IF ~providerConfigured
          THEN FallBack(i, input, "not-run", [started EXCEPT !.input = Some(input)])
          ELSE /\ invocations' = [invocations EXCEPT ![i] =
                     [started EXCEPT !.pc = "awaiting", !.input = Some(input),
                                     !.runId = context.runId, !.orchestration = "running"]]
               /\ uuidsDrawn' = context.drawn
               /\ UNCHANGED <<deliverablesByKey, runOutcomeById, recordedUnder>>

(* a report_result call under runId: reportEmailDraft; a throw is the tool's
   error and changes nothing *)
Report(i, payload, runId) ==
    \E outcome \in {reportEmailDraft(deliverablesByKey, runOutcomeById, payload, runId)} :
       /\ deliverablesByKey' = outcome.byKey
       /\ runOutcomeById' = outcome.byId
       /\ recordedUnder' = RecordedAfter(recordedUnder, runId, outcome.ret)
       /\ invocations' = [invocations EXCEPT
              ![i].toolCalls = @ + 1,
              ![i].recorded = @ \cup (IF outcome.threw THEN {} ELSE {outcome.ret[1].deliverable}),
              ![i].stored = @ \cup (DOMAIN outcome.byKey \ DOMAIN deliverablesByKey),
              ![i].outcomes = @ \cup (DOMAIN outcome.byId \ DOMAIN runOutcomeById)]
       /\ UNCHANGED <<uuidsDrawn, providerConfigured, last, computed, sessions, runs, lastEvent, chats>>

(* the agent run hands off to the email draft agent, which calls report_result
   with the driver's run context *)
ReportResult(i, payload) ==
    /\ invocations[i].pc = "awaiting"
    /\ invocations[i].specialistRunId = None
    /\ invocations[i].toolCalls < MaxToolCalls
    /\ Report(i, payload, invocations[i].runId)

(* the orchestrator calls draft_email: runEmailDraftSpecialist makes a run
   context of its own and awaits a run of the email draft agent *)
DraftEmailStart(i) ==
    LET context == createRuntimeContext(None, uuidsDrawn)
    IN /\ invocations[i].pc = "awaiting"
       /\ invocations[i].specialistRunId = None
       /\ invocations[i].toolCalls < MaxToolCalls
       /\ invocations' = [invocations EXCEPT ![i].specialistRunId = Some(context.runId),
                                             ![i].toolCalls = @ + 1]
       /\ uuidsDrawn' = context.drawn
       /\ UNCHANGED <<deliverablesByKey, runOutcomeById, providerConfigured, last, recordedUnder, computed, sessions, runs, lastEvent, chats>>

(* the specialist's agent calls report_result with the specialist's run context *)
SpecialistReport(i, payload) ==
    /\ invocations[i].pc = "awaiting"
    /\ invocations[i].specialistRunId # None
    /\ invocations[i].toolCalls < MaxToolCalls
    /\ Report(i, payload, invocations[i].specialistRunId[1])

(* runEmailDraftSpecialist returns or throws: draft_email's answer to the model *)
DraftEmailEnd(i) ==
    /\ invocations[i].pc = "awaiting"
    /\ invocations[i].specialistRunId # None
    /\ invocations' = [invocations EXCEPT ![i].specialistRunId = None]
    /\ UNCHANGED <<deliverablesByKey, runOutcomeById, uuidsDrawn, providerConfigured, last,
                   recordedUnder, computed, sessions, runs, lastEvent, chats>>

(* `await runner.run` returns: the outcome lookup, then the response or the catch block *)
RunReturns(i) ==
    \E result \in {orchestratedResult(deliverablesByKey, runOutcomeById, invocations[i].runId)} :
       /\ invocations[i].pc = "awaiting"
       /\ invocations[i].specialistRunId = None
       /\ UNCHANGED <<providerConfigured, last, computed, sessions, runs, lastEvent, chats>>
       /\ IF result # None
          THEN /\ invocations' = [invocations EXCEPT ![i] =
                     [invocations[i] EXCEPT !.pc = "done", !.orchestration = "returned",
                        !.response = Some(Delivered(result[1], result[1].runId, providerConfigured, None)),
                        !.http = Some(POST(Delivered(result[1], result[1].runId, providerConfigured, None)))]]
               /\ UNCHANGED <<deliverablesByKey, runOutcomeById, uuidsDrawn, recordedUnder>>
          ELSE FallBack(i, invocations[i].input[1], "no-deliverable", invocations[i])

(* `await runner.run` throws: the catch block *)
RunThrows(i) ==
    /\ invocations[i].pc = "awaiting"
    /\ UNCHANGED <<providerConfigured, last, computed, sessions, runs, lastEvent, chats>>
    /\ FallBack(i, invocations[i].input[1], "threw", invocations[i])

Next ==
    \/ \E i \in Invocations, payload \in Payloads : Request(i, payload)
    \/ \E i \in Invocations, payload \in AgentPayloads : ReportResult(i, payload)
    \/ \E i \in Invocations : DraftEmailStart(i)
    \/ \E i \in Invocations, payload \in AgentPayloads : SpecialistReport(i, payload)
    \/ \E i \in Invocations : DraftEmailEnd(i)
    \/ \E i \in Invocations : RunReturns(i)
    \/ \E i \in Invocations : RunThrows(i)

Spec == Init /\ [][Next]_vars

-----------------------------------------------------------------------------
(* The chat route: POST /api/chat *)

(* an AgentInputItem: a message of a role, or a tool call or its result *)
Item(type, role, name, text, output) ==
    [type |-> type, role |-> role, name |-> name, text |-> text, output |-> output]

toUserMessage(text) == Item("message", "user", "", text, None)

(* extractAssistantText: the trimmed output_text of an assistant message *)
extractAssistantText(item) ==
    IF item.role # "assistant" THEN "" ELSE Trim(item.text)

(* [...incomingMessages].reverse().find(message => message?.role === "user") *)
lastUserMessage(messages) ==
    IF \E i \in 1..Len(messages) : messages[i].role = "user"
    THEN Some(messages[CHOOSE i \in 1..Len(messages) :
                          /\ messages[i].role = "user"
                          /\ \A j \in (i + 1)..Len(messages) : messages[j].role # "user"])
    ELSE None

(* extractIncomingMessageText: the content string as it is, or the text parts
   joined and trimmed *)
extractIncomingMessageText(message) ==
    IF message = None THEN ""
    ELSE IF message[1].content.kind = "string" THEN message[1].content.text
    ELSE IF message[1].parts = None THEN ""
    ELSE Trim(Join([i \in 1..Len(SelectSeq(message[1].parts[1], LAMBDA part : part.type = "text"))
                      |-> SelectSeq(message[1].parts[1], LAMBDA part : part.type = "text")[i].text], ""))

(* the messages of the request bodies: content strings and text parts *)
ChatMessage(role, content, parts) == [role |-> role, content |-> content, parts |-> parts]

(* request bodies: two prompts on the default thread, one on a thread of its
   own, given as parts, and two without a user text *)
ChatPayloads ==
    { [threadId |-> None,
       messages |-> <<ChatMessage("user", Str("Draft an email to Alex"), None)>>],
      [threadId |-> None,
       messages |-> <<ChatMessage("user", Str("Draft an email to Alex"), None),
                      ChatMessage("assistant", Str("Which tone?"), None),
                      ChatMessage("user", Undefined,
                                  Some(<<[type |-> "text", text |-> " Make it formal "],
                                         [type |-> "file", text |-> "notes.txt"]>>))>>],
      [threadId |-> Some("thread-a"),
       messages |-> <<ChatMessage("user", Undefined, Some(<<[type |-> "text", text |-> "Summarise the thread"]>>))>>],
      [threadId |-> Some("thread-a"),
       messages |-> <<ChatMessage("user", Undefined, Some(<<[type |-> "text", text |-> "  "]>>))>>],
      [threadId |-> None,
       messages |-> <<ChatMessage("assistant", Str("Hello"), None)>>] }

(* Date.now() when execute starts, as the digits of messageId *)
ChatNows == {"1704196800000", "1704196800001"}

(* a part written to the UI message stream *)
Part(type, id, delta, data) == [type |-> type, id |-> id, delta |-> delta, data |-> data]

(* writeTextChunks: the text-delta parts for a text, in chunks of 300 characters *)
RECURSIVE TextChunks(_, _)
TextChunks(id, normalized) ==
    IF Len(normalized) = 0 THEN <<>>
    ELSE <<Part("text-delta", id, SubSeq(normalized, 1, IF Len(normalized) < 300 THEN Len(normalized) ELSE 300), None)>>
         \o TextChunks(id, SubSeq(normalized, (IF Len(normalized) < 300 THEN Len(normalized) ELSE 300) + 1,
                                  Len(normalized)))

writeTextChunks(id, text) ==
    IF text = "" THEN <<>>
    ELSE IF Trim(text) = "" THEN <<Part("text-delta", id, text, None)>>
    ELSE TextChunks(id, text)

(* finalize as it would be if it wrote no text-end *)
finalizeSilently(stream, closed, messageId) == stream

(* finalize: text-end, unless the stream was closed before *)
finalize(stream, closed, messageId) ==
    IF closed THEN stream ELSE Append(stream, Part("text-end", messageId, "", None))

(* extractToolInteractions: one interaction per call id, in the order the ids
   first occur; a result completes the call *)
RECURSIVE extractToolInteractions(_)
extractToolInteractions(items) ==
    IF items = <<>> THEN <<>>
    ELSE LET Seen(calls, item) ==
                 IF item.type \notin {"function_call_arguments", "function_call_result"} THEN calls
                 ELSE IF \E i \in 1..Len(calls) : calls[i].id = item.text
                 THEN [i \in 1..Len(calls) |->
                          IF calls[i].id # item.text THEN calls[i]
                          ELSE [id |-> item.text, name |-> item.name,
                                status |-> IF item.type = "function_call_result" THEN "completed" ELSE "started"]]
                 ELSE Append(calls, [id |-> item.text, name |-> item.name,
                                     status |-> IF item.type = "function_call_result"
                                                THEN "completed" ELSE "started"])
         IN Seen(extractToolInteractions(SubSeq(items, 1, Len(items) - 1)), items[Len(items)])

(* extractDeliverableParts: the outputs of the draft_email results that carry
   a subject and a body *)
extractDeliverableParts(items) ==
    [i \in 1..Len(SelectSeq(items, LAMBDA item : /\ item.type = "function_call_result"
                                                  /\ item.name = "draft_email"
                                                  /\ item.output # None
                                                  /\ item.output[1].subject # ""
                                                  /\ item.output[1].body # ""))
       |-> SelectSeq(items, LAMBDA item : /\ item.type = "function_call_result"
                                          /\ item.name = "draft_email"
                                          /\ item.output # None
                                          /\ item.output[1].subject # ""
                                          /\ item.output[1].body # "")[i].output[1]]

(* buildReasoning: the titles of the steps *)
buildReasoning(userText, toolCalls, deliverableParts) ==
    (IF userText # "" THEN <<"Understand operator request">> ELSE <<>>)
    \o (IF \E i \in 1..Len(toolCalls) : toolCalls[i].name = "draft_email"
        THEN <<"Delegate to drafting specialist">> ELSE <<>>)
    \o (IF deliverableParts # <<>> THEN <<"Assemble final response">> ELSE <<>>)

(* buildSources: the titles of the sources of the primary deliverable *)
buildSources(deliverableParts, toolCalls) ==
    IF deliverableParts = <<>> THEN <<>>
    ELSE deliverableParts[1].metadata.keyPoints
         \o (IF \E i \in 1..Len(toolCalls) : toolCalls[i].name = "draft_email"
             THEN <<"Draft email specialist">> ELSE <<>>)

(* what execute writes after the agent run returned, from the assistant text
   to the email drafts *)
ResponseParts(messageId, userText, newItems) ==
    LET texts == SelectSeq([i \in 1..Len(newItems) |-> extractAssistantText(newItems[i])],
                           LAMBDA text : Len(text) > 0)
        Written(textResponse, toolInteractions, deliverableParts) ==
            (IF textResponse # "" THEN writeTextChunks(messageId, textResponse)
             ELSE <<Part("text-delta", messageId, "No assistant response generated.", None)>>)
            \o (IF buildReasoning(userText, toolInteractions, deliverableParts) # <<>>
                THEN <<Part("data-reasoning", messageId \o "-reasoning", "",
                            Some(buildReasoning(userText, toolInteractions, deliverableParts)))>>
                ELSE <<>>)
            \o [i \in 1..Len(toolInteractions) |->
                  Part("data-tool", messageId \o "-tool-" \o ToString(i - 1), "", Some(toolInteractions[i]))]
            \o (IF buildSources(deliverableParts, toolInteractions) # <<>>
                THEN <<Part("data-sources", messageId \o "-sources", "",
                            Some(buildSources(deliverableParts, toolInteractions)))>>
                ELSE <<>>)
            \o [i \in 1..Len(deliverableParts) |->
                  Part("data-email-draft", messageId \o "-email-" \o ToString(i - 1), "",
                       Some(deliverableParts[i]))]
    IN Written(Join(texts, "\n\n"), extractToolInteractions(newItems), extractDeliverableParts(newItems))

(* what draft_email returns to the model: JSON of the specialist's result *)
DraftEmailOutput(result, runId) ==
    [subject |-> result.deliverable.draft.subject,
     body |-> result.deliverable.draft.body,
     variants |-> result.deliverable.draft.variants,
     metadata |-> result.deliverable.metadata,
     cacheKey |-> result.cacheKey,
     runId |-> runId,
     identicalToExisting |-> result.identicalToExisting]

(* the ways the agent run of a chat turn ends well: an answer, no answer, and
   a draft_email call followed by an answer *)
AgentRunKinds == {"answers", "silent", "drafts"}

(* the items the agent run appends to the history it was given; `drafted` is
   what the specialist under draft_email recorded *)
NewItems(kind, drafted, specialistRunId) ==
    IF kind = "answers" THEN <<Item("message", "assistant", "", " Here is what I found. ", None)>>
    ELSE IF kind = "silent" THEN <<>>
    ELSE << Item("function_call_arguments", "", "draft_email", "call-1", None),
            Item("function_call_result", "", "draft_email", "call-1",
                 Some(DraftEmailOutput(drafted.ret[1], specialistRunId))),
            Item("message", "assistant", "", "The draft is ready.", None) >>

(* POST up to the await on runner.run, or to its end: the 400 answer, or the
   session, text-start and, without a provider key, the notice and text-end *)
ChatPost(c, payload, now) ==
    /\ chats[c].pc = "idle"
    /\ c = "turn-2" => chats["turn-1"].pc # "idle"
    /\ \E userText \in {extractIncomingMessageText(lastUserMessage(payload.messages))},
          messageId \in {"assistant-text-" \o now} :
          IF userText = ""
          THEN /\ chats' = [chats EXCEPT ![c] =
                     [NoChat EXCEPT !.pc = "done", !.status = 400, !.storeBefore = Some(sessions),
                                    !.outcome = "no-user-message"]]
               /\ UNCHANGED <<sessions, uuidsDrawn>>
          ELSE \E got \in {getOrCreateSession(sessions,
                                              Some(IF payload.threadId = None THEN "default-thread"
                                                   ELSE payload.threadId[1]),
                                              uuidsDrawn)} :
                  /\ sessions' = got.sessions
                  /\ uuidsDrawn' = got.drawn
                  /\ chats' = [chats EXCEPT ![c] =
                        [NoChat EXCEPT
                           !.pc = IF providerConfigured THEN "awaiting" ELSE "done",
                           !.status = 200,
                           !.threadId = got.id,
                           !.userText = userText,
                           !.messageId = messageId,
                           !.storeBefore = Some(sessions),
                           !.historyWithUser = IF providerConfigured
                                               THEN Append(got.session.history, toUserMessage(userText))
                                               ELSE <<>>,
                           !.outcome = IF providerConfigured THEN "" ELSE "no-provider-key",
                           !.stream =
                              IF providerConfigured
                              THEN <<Part("text-start", messageId, "", None)>>
                              ELSE finalize(
                                     <<Part("text-start", messageId, "", None),
                                       Part("text-delta", messageId,
                                            "The orchestrator is unavailable because OPENAI_API_KEY is not configured.",
                                            None)>>,
                                     FALSE, messageId)]]
    /\ UNCHANGED <<deliverablesByKey, runOutcomeById, providerConfigured, invocations, last,
                   recordedUnder, computed, runs, lastEvent>>

(* `await runner.run` returns: the history replaces the session's, the answer
   and the data parts are written, then text-end.  Under draft_email the
   specialist recorded a deliverable under a run context of its own. *)
ChatRunReturns(c, kind) ==
    /\ chats[c].pc = "awaiting"
    /\ \E drafted \in {reportEmailDraft(deliverablesByKey, runOutcomeById,
                                         AsPayload([type |-> "email-draft", draft |-> AgentDraft,
                                                    metadata |-> BaseMetadata]),
                                         randomUUID(uuidsDrawn + 1))} :
          /\ IF kind = "drafts"
             THEN /\ deliverablesByKey' = drafted.byKey
                  /\ runOutcomeById' = drafted.byId
                  /\ uuidsDrawn' = uuidsDrawn + 1
                  /\ recordedUnder' = RecordedAfter(recordedUnder, randomUUID(uuidsDrawn + 1), drafted.ret)
             ELSE UNCHANGED <<deliverablesByKey, runOutcomeById, uuidsDrawn, recordedUnder>>
          /\ \E newItems \in {NewItems(kind, drafted, randomUUID(uuidsDrawn + 1))} :
                /\ sessions' = updateSessionHistory(sessions, chats[c].threadId,
                                                    chats[c].historyWithUser \o newItems)
                /\ chats' = [chats EXCEPT ![c] =
                      [chats[c] EXCEPT
                         !.pc = "done", !.outcome = "succeeded",
                         !.stream = finalize(chats[c].stream
                                             \o ResponseParts(chats[c].messageId, chats[c].userText, newItems),
                                             FALSE, chats[c].messageId)]]
    /\ UNCHANGED <<providerConfigured, invocations, last, computed, runs, lastEvent>>

(* `await runner.run` throws: the catch block writes the error, then text-end *)
ChatRunThrows(c, message) ==
    /\ chats[c].pc = "awaiting"
    /\ chats' = [chats EXCEPT ![c] =
          [chats[c] EXCEPT
             !.pc = "done", !.outcome = "threw",
             !.stream = finalize(Append(chats[c].stream,
                                        Part("text-delta", chats[c].messageId, "Error: " \o message, None)),
                                 FALSE, chats[c].messageId)]]
    /\ UNCHANGED <<deliverablesByKey, runOutcomeById, uuidsDrawn, providerConfigured, invocations, last,
                   recordedUnder, computed, sessions, runs, lastEvent>>

NextChat ==
    \/ \E c \in ChatRequests, payload \in ChatPayloads, now \in ChatNows : ChatPost(c, payload, now)
    \/ \E c \in ChatRequests, kind \in AgentRunKinds : ChatRunReturns(c, kind)
    \/ \E c \in ChatRequests, message \in {"Rate limit exceeded", ""} : ChatRunThrows(c, message)

SpecChat == Init /\ [][NextChat]_vars

-----------------------------------------------------------------------------
(* Properties of the store *)

IsRecordCall(call) == call.op = "record"

(* C1: recordEmailDeliverable(runId, d) is first-writer-wins on the key of
   {runId, d.metadata}: on a key the cache holds it returns the stored
   deliverable with identicalToExisting = true and leaves the cache as it was;
   otherwise it stores d and returns d with identicalToExisting = false. *)
RecordFirstWriterWins ==
    [][IsRecordCall(last') =>
        LET d == last'.arg[1]
            key == computeDeliverableKey([runId |-> last'.runId, metadata |-> d.metadata])
            ret == last'.ret[1]
        IN /\ ret.cacheKey = key
           /\ IF key \in DOMAIN deliverablesByKey
              THEN /\ ret.deliverable = deliverablesByKey[key]
                   /\ ret.identicalToExisting
                   /\ deliverablesByKey' = deliverablesByKey
              ELSE /\ ret.deliverable = d
                   /\ ~ret.identicalToExisting
                   /\ deliverablesByKey' = MapSet(deliverablesByKey, key, d)]_vars

(* a record hit a key whose stored deliverable has another draft text than the one supplied *)
RecordHitWithOtherDraft ==
    /\ IsRecordCall(last)
    /\ last.ret[1].identicalToExisting
    /\ last.ret[1].deliverable.draft.body # last.arg[1].draft.body
    /\ last.ret[1].deliverable.metadata = last.arg[1].metadata

(* C2: without a reset, a key once recorded stays mapped to the same
   deliverable: no record, fallback, get or getOutcome changes or removes an entry. *)
EntriesArePermanent ==
    [][resetDeliverables \/
       \A key \in DOMAIN deliverablesByKey :
           key \in DOMAIN deliverablesByKey' /\ deliverablesByKey'[key] = deliverablesByKey[key]]_vars

(* the generator ran on a key that a record had filled first, and got that
   record's deliverable back, not the one it built *)
FallbackFoundEarlierRecord ==
    /\ last.op = "fallback"
    /\ last.ret # None
    /\ last.ret[1].identicalToExisting
    /\ last.ret[1].deliverable # BuiltDeliverable[last.arg[1]][1]
    /\ deliverablesByKey[last.ret[1].cacheKey] = last.ret[1].deliverable

(* C3: at most one deliverable is recorded per runId: the cache never holds
   two deliverables that were recorded under the same runId. *)
AtMostOneDeliverablePerRunId ==
    \A runId \in DOMAIN recordedUnder :
        Cardinality(recordedUnder[runId] \cap DOMAIN deliverablesByKey) <= 1

(* C4: every record, hit or miss, sets the RunOutcome of its runId to the
   cacheKey and identicalToExisting it returns and leaves the RunOutcomes of
   the other runIds alone; get and getOutcome change no RunOutcome. *)
OutcomeFollowsRecord ==
    [][IF last'.op \in {"record", "fallback"} /\ last'.ret # None
       THEN runOutcomeById' =
                MapSet(runOutcomeById, last'.runId,
                       [cacheKey |-> last'.ret[1].cacheKey,
                        identicalToExisting |-> last'.ret[1].identicalToExisting])
       ELSE resetDeliverables \/ runOutcomeById' = runOutcomeById]_vars

(* a record hit replaced the outcome of a first record, while another runId has its own outcome *)
RecordHitReplacedOutcome ==
    /\ IsRecordCall(last)
    /\ last.ret[1].identicalToExisting
    /\ runOutcomeById[last.runId] = [cacheKey |-> last.ret[1].cacheKey, identicalToExisting |-> TRUE]
    /\ \E other \in DOMAIN runOutcomeById :
           other # last.runId /\ ~runOutcomeById[other].identicalToExisting

(* C5: invoking the fallback generator twice with the same input and runId
   yields on the second call identicalToExisting = true, the first call's
   cacheKey and the first call's draft body. *)
FallbackTwiceIsIdentical ==
    [][(/\ last.op = "fallback" /\ last'.op = "fallback"
        /\ last'.tick # last.tick
        /\ last'.runId = last.runId /\ last'.arg = last.arg)
       => /\ last.ret # None /\ last'.ret # None
          /\ last'.ret[1].identicalToExisting
          /\ last'.ret[1].cacheKey = last.ret[1].cacheKey
          /\ last'.ret[1].deliverable.draft.body = last.ret[1].deliverable.draft.body]_vars

(* defined properties with the same values, whatever the order of the keys *)
SemanticallyEqual(m1, m2) ==
    LET Defined(m) == {key \in Range(m.order) : IsDefinedMember(m, key)}
    IN /\ Defined(m1) = Defined(m2)
       /\ \A key \in Defined(m1) : JsonMember(m1, key) = JsonMember(m2, key)

(* C7: computeDeliverableKey returns the same fingerprint for two payloads
   with the same runId and semantically equal metadata, also when the
   metadata's keys are in a different order. *)
KeyIgnoresKeyOrder ==
    \A c1, c2 \in computed :
        (c1.payload.runId = c2.payload.runId
         /\ SemanticallyEqual(c1.payload.metadata, c2.payload.metadata))
        => c1.key = c2.key

-----------------------------------------------------------------------------
(* Properties of the driver *)

(* invocation j was called after invocation i had returned, with the same
   payload, and both returned a deliverable *)
CalledAgain(i, j) ==
    /\ i # j
    /\ invocations[i].pc = "done" /\ invocations[j].pc = "done"
    /\ i \in invocations[j].startedAfter
    /\ invocations[i].payload = invocations[j].payload
    /\ invocations[i].response[1].ok /\ invocations[j].response[1].ok

(* C6, as the specification states it: the driver called twice with the same
   metadata yields identicalToExisting = true on the second call, whichever
   path the first call took. *)
DriverTwiceIsIdentical ==
    \A i, j \in Invocations :
        CalledAgain(i, j) => invocations[j].response[1].identicalToExisting

(* C6, as the code has it: the driver takes no runId, every call runs under
   an identifier of its own, so the second of two calls with the same metadata
   returns another runId and another cacheKey than the first, and on the
   fallback path identicalToExisting = false. *)
DriverCallsRunUnderOwnRunId ==
    \A i, j \in Invocations :
        CalledAgain(i, j) =>
            /\ invocations[j].response[1].runId # invocations[i].response[1].runId
            /\ invocations[j].response[1].cacheKey # invocations[i].response[1].cacheKey
            /\ invocations[j].response[1].fallbackUsed = Some(TRUE)
                   => ~invocations[j].response[1].identicalToExisting

(* the first call delivered what the agent run recorded, the second call, with
   the same payload, delivered through the fallback generator *)
SecondCallAfterOrchestratedFirst ==
    /\ CalledAgain("first", "second")
    /\ invocations["first"].orchestration = "returned"
    /\ invocations["second"].response[1].fallbackUsed = Some(TRUE)

(* C8: with a provider configured, when the agent run throws or returns with
   no deliverable recorded under the invocation's runId, the driver returns a
   Delivered result of the fallback generator with fallbackUsed = true and
   providerConfigured = true, and no error reaches the caller. *)
OrchestrationFailureDeliversFallback ==
    \A i \in Invocations :
        (invocations[i].pc = "done" /\ invocations[i].orchestration \in {"threw", "no-deliverable"})
        => /\ ~invocations[i].response[1].threw
           /\ invocations[i].response[1].ok
           /\ invocations[i].response[1].deliverable # None
           /\ invocations[i].response[1].fallbackUsed = Some(TRUE)
           /\ invocations[i].response[1].providerConfigured = Some(TRUE)

(* C9: with no provider configured, every request that passes validation and
   the guardrail is served by the fallback generator, the agent run is never
   started, and the result is Delivered with providerConfigured = false and
   fallbackUsed = true. *)
NoProviderDeliversFallback ==
    \A i \in Invocations :
        (/\ ~providerConfigured
         /\ invocations[i].pc # "idle"
         /\ SchemaAccepts[invocations[i].payload[1]]
         /\ GuardrailPasses[ParsedData(invocations[i].payload[1])])
        => /\ invocations[i].pc = "done"
           /\ invocations[i].orchestration = "not-run"
           /\ ~invocations[i].response[1].threw
           /\ invocations[i].response[1].ok
           /\ invocations[i].response[1].deliverable # None
           /\ invocations[i].response[1].providerConfigured = Some(FALSE)
           /\ invocations[i].response[1].fallbackUsed = Some(TRUE)

(* C10: when `await runner.run` returns and a deliverable is recorded under
   the invocation's runId, the driver returns Delivered with no fallbackUsed
   flag, the runId of the invocation, and the cacheKey and identicalToExisting
   of that runId's RunOutcome, with the deliverable stored under that key. *)
OrchestratedSuccessDelivers ==
    [][\A i \in Invocations :
         (/\ invocations[i].pc = "awaiting" /\ invocations'[i].pc = "done"
          /\ invocations'[i].orchestration # "threw"
          /\ invocations[i].runId \in DOMAIN runOutcomeById
          /\ runOutcomeById[invocations[i].runId].cacheKey \in DOMAIN deliverablesByKey)
         => /\ invocations'[i].orchestration = "returned"
            /\ invocations'[i].response =
                   Some([NoResponse EXCEPT
                           !.ok = TRUE,
                           !.deliverable =
                               Some(deliverablesByKey[runOutcomeById[invocations[i].runId].cacheKey]),
                           !.identicalToExisting =
                               runOutcomeById[invocations[i].runId].identicalToExisting,
                           !.cacheKey = runOutcomeById[invocations[i].runId].cacheKey,
                           !.runId = invocations[i].runId,
                           !.providerConfigured = Some(TRUE),
                           !.fallbackUsed = None])]_vars

(* the agent reported twice under the invocation's runId, the second report
   hit the first, and the driver delivered the first report's deliverable *)
OrchestratedDeliveredAfterRepeat ==
    \E i \in Invocations :
        /\ invocations[i].pc = "done"
        /\ invocations[i].orchestration = "returned"
        /\ invocations[i].response[1].identicalToExisting
        /\ invocations[i].response[1].fallbackUsed = None
        /\ invocations[i].response[1].runId = invocations[i].runId

(* invocation i is called in this step: runEmailAgentFromPayload runs up to
   its first await that suspends, or to its return *)
IsCalled(i) == invocations[i].pc = "idle" /\ invocations'[i].pc # "idle"

(* the step leaves the Deliverable Cache and the RunOutcome map as they were *)
StoreUntouched == UNCHANGED <<deliverablesByKey, runOutcomeById>>

(* C11: within one driver invocation Validate, Guard, Dispatch, generation and
   the cache record happen in that order: a payload the input schema rejects
   is answered with the validation reason with no guardrail, run context or
   generator behind it; a guardrail failure is answered with no run context
   and no generator; and the cache is only written by an invocation that
   passed both and was dispatched. *)
StepsHappenInOrder ==
    [][/\ \A i \in Invocations :
            IsCalled(i) =>
                IF ~emailDraftAgentInputSchema(invocations'[i].payload[1])
                THEN /\ invocations'[i].pc = "done"
                     /\ invocations'[i].input = None
                     /\ invocations'[i].orchestration = "not-run"
                     /\ invocations'[i].response =
                            Some(Rejected(ValidationReason(invocations'[i].payload[1]), providerConfigured))
                     /\ StoreUntouched /\ UNCHANGED uuidsDrawn
                ELSE IF ~runGuardrails(ParsedData(invocations'[i].payload[1]))
                THEN /\ invocations'[i].pc = "done"
                     /\ invocations'[i].orchestration = "not-run"
                     /\ invocations'[i].response = Some(Rejected(SensitiveReason, providerConfigured))
                     /\ StoreUntouched /\ UNCHANGED uuidsDrawn
                ELSE /\ uuidsDrawn' = uuidsDrawn + 1
                     /\ invocations'[i].input = Some(ParsedData(invocations'[i].payload[1]))
                     /\ IF providerConfigured
                        THEN invocations'[i].orchestration = "running" /\ StoreUntouched
                        ELSE invocations'[i].pc = "done" /\ invocations'[i].orchestration = "not-run"
       /\ ~StoreUntouched =>
            \E i \in Invocations :
                /\ invocations'[i] # invocations[i]
                /\ invocations'[i].input # None
                /\ SchemaAccepts[invocations'[i].payload[1]]
                /\ GuardrailPasses[invocations'[i].input[1]]
                /\ invocations[i].pc = "awaiting" \/ (IsCalled(i) /\ ~providerConfigured)]_vars

(* one call was rejected by the input schema for its empty key points, and a
   later call was dispatched and delivered what its agent run recorded *)
RejectedThenRecorded ==
    /\ invocations["first"].pc = "done"
    /\ invocations["first"].response[1].reason = "List at least one key point."
    /\ invocations["first"].input = None
    /\ invocations["second"].pc = "done"
    /\ invocations["second"].orchestration = "returned"
    /\ invocations["second"].response[1].cacheKey \in DOMAIN deliverablesByKey

(* one of recipient, tone, additionalContext and the key points matches a
   disallowed pattern *)
HasSensitiveField(input) ==
    \/ MatchesSensitivePattern(input.recipient)
    \/ MatchesSensitivePattern(input.tone)
    \/ input.additionalContext.kind = "string" /\ MatchesSensitivePattern(input.additionalContext.text)
    \/ \E k \in 1..Len(input.keyPoints) : MatchesSensitivePattern(input.keyPoints[k])

(* C12: a validated input of which the recipient, the tone, the
   additionalContext or a key point matches a disallowed pattern is Rejected
   with the sensitive-information reason, with or without a provider; no
   generator runs for it, and the Deliverable Cache and the RunOutcome map are
   after the invocation what they were before it. *)
SensitiveInputIsRejected ==
    [][\A i \in Invocations :
         (/\ IsCalled(i)
          /\ emailDraftAgentInputSchema(invocations'[i].payload[1])
          /\ HasSensitiveField(ParsedData(invocations'[i].payload[1])))
         => /\ invocations'[i].pc = "done"
            /\ invocations'[i].orchestration = "not-run"
            /\ invocations'[i].response = Some(Rejected(SensitiveReason, providerConfigured))
            /\ invocations'[i].response[1].deliverable = None
            /\ StoreUntouched]_vars

(* with a provider configured and a deliverable in the cache, a call whose
   additionalContext names a credit card was rejected *)
SensitiveRejectedBesideDelivered ==
    /\ providerConfigured
    /\ invocations["first"].pc = "done" /\ invocations["first"].response[1].ok
    /\ invocations["second"].pc = "done"
    /\ invocations["second"].payload[1].additionalContext = Str("Pay by credit  card on file.")
    /\ invocations["second"].response[1].reason = SensitiveReason
    /\ invocations["first"].response[1].cacheKey \in DOMAIN deliverablesByKey

(* C13: for every input the input schema accepts, the deliverable the
   fallback generator assembles passes the re-validation in reportEmailDraft:
   runEmailDraftFallback does not throw. *)
FallbackNeverThrows ==
    (last.op = "fallback" /\ last.arg[1] \in Inputs) => (~last.threw /\ last.ret # None)

(* C14: every driver invocation whose agent run returned or threw ends either
   Rejected (ok = false, HTTP 400) or Delivered (ok = true, HTTP 200 with the
   envelope); no invocation ends with an error leaving the driver (HTTP 500). *)
EndsRejectedOrDelivered ==
    \A i \in Invocations :
        invocations[i].pc = "done" =>
            /\ ~invocations[i].response[1].threw
            /\ IF invocations[i].response[1].ok
               THEN /\ invocations[i].http[1].status = 200
                    /\ invocations[i].response[1].deliverable # None
                    /\ invocations[i].http[1].body.draft # None
                    /\ invocations[i].http[1].body.cacheKey = Some(invocations[i].response[1].cacheKey)
               ELSE /\ invocations[i].http[1].status = 400
                    /\ invocations[i].http[1].body.error = Some(invocations[i].response[1].reason)

(* C15: whenever the driver delivered through the fallback generator while a
   provider was configured, the body of the HTTP response of
   POST /api/agents/email holds fallbackUsed = true. *)
HttpBodyCarriesFallbackUsed ==
    \A i \in Invocations :
        (/\ invocations[i].pc = "done"
         /\ providerConfigured
         /\ invocations[i].response[1].ok
         /\ invocations[i].response[1].fallbackUsed = Some(TRUE))
        => /\ invocations[i].http[1].status = 200
           /\ invocations[i].http[1].body.fallbackUsed = Some(TRUE)

-----------------------------------------------------------------------------
(* Properties of the conversation store *)

(* C16: getOrCreateSession always returns: for a known threadId the existing
   session, with nothing created; for an unknown threadId a session with empty
   history stored under exactly that id; with no threadId a session with empty
   history stored under an id no session had; and every session is stored
   under its own id, so no two sessions share one. *)
GetOrCreateKeepsIdsUnique ==
    [][last'.op = "getOrCreateSession" =>
         /\ ~last'.threw /\ last'.ret # None
         /\ IF last'.arg # None /\ last'.arg[1] \in DOMAIN sessions
            THEN /\ last'.ret[1].id = last'.arg[1]
                 /\ last'.ret[1].session = sessions[last'.arg[1]]
                 /\ sessions' = sessions
            ELSE /\ last'.ret[1].id \notin DOMAIN sessions
                 /\ last'.arg # None => last'.ret[1].id = last'.arg[1]
                 /\ last'.ret[1].session.history = <<>>
                 /\ sessions' = MapSet(sessions, last'.ret[1].id, last'.ret[1].session)
         /\ \A id \in DOMAIN sessions' : sessions'[id].context.threadId = id
         /\ \A id \in DOMAIN sessions : sessions'[id] = sessions[id]]_vars

(* a session was returned for a known threadId with the history a caller had
   stored in it, beside a session made under a generated id *)
ExistingSessionReturned ==
    /\ last.op = "getOrCreateSession"
    /\ last.arg = Some("default-thread")
    /\ last.ret[1].session.history # <<>>
    /\ sessions["default-thread"] = last.ret[1].session
    /\ \E id \in DOMAIN sessions : id \notin ThreadIds

(* C17: updateSessionHistory(threadId, items) replaces the history of a known
   session with items and leaves its context and the other sessions as they
   were; for an unknown threadId it returns without a throw, a new session or
   any change. *)
UpdateReplacesHistoryOrNothing ==
    [][last'.op = "updateSessionHistory" =>
         /\ ~last'.threw
         /\ DOMAIN sessions' = DOMAIN sessions
         /\ \A id \in DOMAIN sessions :
              IF id = last'.arg[1].threadId
              THEN /\ sessions'[id].history = last'.arg[1].items
                   /\ sessions'[id].context = sessions[id].context
              ELSE sessions'[id] = sessions[id]
         /\ UNCHANGED <<deliverablesByKey, runOutcomeById, uuidsDrawn>>]_vars

(* the history was updated under a threadId that no session has, while other
   sessions exist with their histories *)
UpdateOfUnknownThread ==
    /\ last.op = "updateSessionHistory"
    /\ last.arg[1].threadId = StaleThreadId
    /\ last.arg[1].items # <<>>
    /\ StaleThreadId \notin DOMAIN sessions
    /\ \E id \in DOMAIN sessions : sessions[id].history # <<>>

-----------------------------------------------------------------------------
(* Properties of racing records *)

(* two records under one runId, one completing right after the other *)
RecordsRace ==
    /\ IsRecordCall(last) /\ IsRecordCall(last')
    /\ last'.tick # last.tick
    /\ last'.runId = last.runId

(* C18: when two invocations record under the same runId with identical
   metadata, in either order of the two records one deliverable is stored
   under their key, both get the same cacheKey and the same stored
   deliverable, the first writer's, and the later one gets
   identicalToExisting = true. *)
RacingRecordsAgree ==
    [][(RecordsRace /\ last'.arg[1].metadata = last.arg[1].metadata)
       => /\ last'.ret[1].cacheKey = last.ret[1].cacheKey
          /\ last'.ret[1].deliverable = last.ret[1].deliverable
          /\ last'.ret[1].identicalToExisting
          /\ ~last.ret[1].identicalToExisting => last'.ret[1].deliverable = last.arg[1]
          /\ deliverablesByKey' = deliverablesByKey
          /\ deliverablesByKey'[last'.ret[1].cacheKey] = last.ret[1].deliverable]_vars

(* the later of two records with the same metadata and another draft text got
   the earlier one's deliverable, the only one stored under the runId *)
LaterWriterGotFirstWriters ==
    /\ IsRecordCall(last)
    /\ last.ret[1].identicalToExisting
    /\ last.ret[1].deliverable.draft # last.arg[1].draft
    /\ recordedUnder[last.runId] = {last.ret[1].cacheKey}
    /\ runOutcomeById[last.runId] = [cacheKey |-> last.ret[1].cacheKey, identicalToExisting |-> TRUE]

(* C19: of two records under the same runId with different metadata the
   cache retains one winner, which one depending on the order of the two
   records. *)
RaceLeavesOneWinner ==
    [][(RecordsRace /\ last'.arg[1].metadata # last.arg[1].metadata)
       => Cardinality({last.ret[1].cacheKey, last'.ret[1].cacheKey} \cap DOMAIN deliverablesByKey') = 1]_vars

-----------------------------------------------------------------------------
(* Properties of the generator *)

VariantLabels == <<"Concise recap", "Action-focused", "Relationship-first">>

(* the variants count of a request payload, 2 when omitted *)
RequestedVariants(payload) == IF payload.variants = None THEN 2 ELSE payload.variants[1]

(* C20: for every validated input the deliverable the generator builds has
   draft.variants of length min(requested variants, 3), in the order Concise
   recap, Action-focused, Relationship-first, and 2 variants when the request
   omits the count. *)
VariantsFollowRequest ==
    \A built \in computed :
        /\ built.deliverable # None
        /\ Len(built.deliverable[1].draft.variants)
             = (IF RequestedVariants(built.payload) < 3 THEN RequestedVariants(built.payload) ELSE 3)
        /\ built.payload.variants = None => Len(built.deliverable[1].draft.variants) = 2
        /\ \A i \in 1..Len(built.deliverable[1].draft.variants) :
               built.deliverable[1].draft.variants[i].label = VariantLabels[i]

(* deliverables were built for a request of one variant, a request of three
   and a request that omits the count *)
BuiltForEachCount ==
    /\ \E built \in computed : built.payload.variants = Some(1) /\ built.deliverable # None
    /\ \E built \in computed :
           /\ built.payload.variants = Some(3)
           /\ built.deliverable # None
           /\ built.deliverable[1].draft.variants[3].label = "Relationship-first"
    /\ \E built \in computed : built.payload.variants = None /\ built.deliverable # None

-----------------------------------------------------------------------------
(* Properties of the runs store *)

(* C21: after any sequence of setRuns, upsertRun and applyEvent the runs list
   is ordered by startedAt descending. *)
RunsOrderedByStartedDescending ==
    \A i, j \in 1..Len(runs) :
        i < j => getTime(runs[i].startedAt) >= getTime(runs[j].startedAt)

(* an event pushed the summary of a run the store did not hold, and the sort
   moved it in front of the run that was there *)
PushedRunSortedToFront ==
    /\ last.op = "applyEvent"
    /\ lastEvent # None /\ lastEvent[1].type = "run.updated"
    /\ last.ret[1].index = 0
    /\ Len(runs) = 2
    /\ runs[1].id = lastEvent[1].runId
    /\ getTime(runs[1].startedAt) > getTime(runs[2].startedAt)

(* an applyEvent call completes in this step *)
EventApplied == last'.op = "applyEvent" /\ last'.tick # last.tick

IsFinished(status) == status \in {"done", "error"}

(* C22: applyEvent with a step.logged event never moves a run whose status is
   done or error back to queued or running, and runs other than the event's
   runId keep their status. *)
StepLoggedNeverDowngrades ==
    [][(EventApplied /\ last'.arg[1].type = "step.logged")
       => /\ Len(runs') = Len(runs)
          /\ \A i \in 1..Len(runs) :
                /\ runs'[i].id = runs[i].id
                /\ IsFinished(runs[i].status) => IsFinished(runs'[i].status)
                /\ runs[i].id # last'.arg[1].runId => runs'[i].status = runs[i].status]_vars

(* C23: applyEvent with a run.updated or run.completed event leaves exactly
   one summary with the event run's id, carrying the event run's status,
   whether or not one was there before; the summaries of the other runs are
   unchanged and lastEvent is the event. *)
RunEventUpserts ==
    [][(EventApplied /\ last'.arg[1].type \in {"run.updated", "run.completed"})
       => /\ Cardinality({i \in 1..Len(runs') : runs'[i].id = last'.arg[1].run[1].id}) = 1
          /\ \A i \in 1..Len(runs') :
                runs'[i].id = last'.arg[1].run[1].id
                => /\ runs'[i].status = last'.arg[1].run[1].status
                   /\ runs'[i].startedAt = last'.arg[1].run[1].startedAt
          /\ {runs'[i] : i \in {k \in 1..Len(runs') : runs'[k].id # last'.arg[1].run[1].id}}
               = {runs[i] : i \in {k \in 1..Len(runs) : runs[k].id # last'.arg[1].run[1].id}}
          /\ Len(runs') = Len(runs) + (IF last'.ret[1].index = 0 THEN 1 ELSE 0)
          /\ lastEvent' = last'.arg]_vars

(* a run.completed event replaced the summary the store held at the second
   place, next to the summary of another run *)
RunEventReplacedSummary ==
    /\ last.op = "applyEvent"
    /\ lastEvent # None /\ lastEvent[1].type = "run.completed"
    /\ last.ret[1].index = 2
    /\ Len(runs) = 2
    /\ \E i \in 1..2 : runs[i].id = lastEvent[1].runId /\ runs[i].status = lastEvent[1].run[1].status

-----------------------------------------------------------------------------
(* Properties of the chat route *)

(* how many parts of a type a stream carries *)
CountOf(stream, type) == Cardinality({i \in 1..Len(stream) : stream[i].type = type})

(* C24: for every chat request with a non-empty user message the stream
   carries one text-start and one text-end with the same message id,
   text-start first, every text-delta and data part between them and text-end
   last, whether the provider key is missing, the agent run succeeds or it
   throws. *)
StreamIsBracketed ==
    \A c \in ChatRequests :
        chats[c].userText # ""
        => /\ chats[c].stream # <<>>
           /\ chats[c].stream[1] = Part("text-start", chats[c].messageId, "", None)
           /\ CountOf(chats[c].stream, "text-start") = 1
           /\ \A i \in 1..Len(chats[c].stream) :
                 chats[c].stream[i].type = "text-delta" => chats[c].stream[i].id = chats[c].messageId
           /\ chats[c].pc = "awaiting" => CountOf(chats[c].stream, "text-end") = 0
           /\ chats[c].pc = "done"
              => /\ chats[c].outcome \in {"no-provider-key", "succeeded", "threw"}
                 /\ CountOf(chats[c].stream, "text-end") = 1
                 /\ chats[c].stream[Len(chats[c].stream)] = Part("text-end", chats[c].messageId, "", None)
                 /\ CountOf(chats[c].stream, "text-delta") >= 1

(* one turn ended with an email draft on its stream and the other with the
   error of a run that threw *)
DraftStreamedBesideError ==
    /\ chats["turn-1"].outcome = "succeeded"
    /\ CountOf(chats["turn-1"].stream, "data-email-draft") = 1
    /\ CountOf(chats["turn-1"].stream, "data-tool") = 1
    /\ chats["turn-2"].outcome = "threw"
    /\ chats["turn-2"].stream[2].delta = "Error: Rate limit exceeded"

(* C28: once the chat requests on a thread have completed, the thread's
   history holds the user message of every request whose agent run succeeded,
   also when two requests overlapped at the await on the agent run. *)
HistoryKeepsEverySucceededTurn ==
    (\A c \in ChatRequests : chats[c].pc # "awaiting")
    => \A c \in ChatRequests :
          chats[c].outcome = "succeeded"
          => /\ chats[c].threadId \in DOMAIN sessions
             /\ \E i \in 1..Len(sessions[chats[c].threadId].history) :
                   sessions[chats[c].threadId].history[i] = toUserMessage(chats[c].userText)

(* the step is one of turn c, and the turn did not succeed in it *)
FailingStep(c) == chats'[c] # chats[c] /\ chats'[c].outcome \in {"no-provider-key", "threw"}

(* the explanatory text-delta, then text-end *)
ExplainedOnStream(chat) ==
    /\ Len(chat.stream) = 3
    /\ chat.stream[2].type = "text-delta"
    /\ \/ /\ chat.outcome = "no-provider-key"
          /\ chat.stream[2].delta = "The orchestrator is unavailable because OPENAI_API_KEY is not configured."
       \/ /\ chat.outcome = "threw"
          /\ SubSeq(chat.stream[2].delta, 1, 7) = "Error: "
    /\ chat.stream[3].type = "text-end"

(* C29, as the specification states it: when the agent run throws or no
   provider key is configured, the session store is what it was before. *)
FailedTurnLeavesSessionsAsBefore ==
    [][\A c \in ChatRequests :
          FailingStep(c) => sessions' = sessions /\ ExplainedOnStream(chats'[c])]_vars

(* C29, as the code has it: a turn that fails leaves every session the store
   held as it was and persists no user message, and writes the explanatory
   text-delta; on a thread without a session the request has made one, with
   an empty history and a run context of its own, and it stays. *)
FailedTurnPersistsNoMessage ==
    [][\A c \in ChatRequests :
          (chats'[c] # chats[c] /\ chats'[c].outcome # "succeeded")
          => /\ \A id \in DOMAIN sessions : id \in DOMAIN sessions' /\ sessions'[id] = sessions[id]
             /\ \A id \in DOMAIN sessions' \ DOMAIN sessions :
                   /\ id = chats'[c].threadId
                   /\ chats[c].pc = "idle"
                   /\ sessions'[id].history = <<>>
                   /\ sessions'[id].context.threadId = id
             /\ FailingStep(c) => ExplainedOnStream(chats'[c])]_vars

(* a turn threw on a thread whose history an earlier turn had written, and
   the history holds the earlier turn's message and not its own *)
ThrewOnThreadWithHistory ==
    /\ chats["turn-1"].outcome = "succeeded"
    /\ chats["turn-2"].outcome = "threw"
    /\ chats["turn-2"].threadId = chats["turn-1"].threadId
    /\ chats["turn-2"].userText # chats["turn-1"].userText
    /\ sessions[chats["turn-2"].threadId].history[1] = toUserMessage(chats["turn-1"].userText)
    /\ \A i \in 1..Len(sessions[chats["turn-2"].threadId].history) :
          sessions[chats["turn-2"].threadId].history[i] # toUserMessage(chats["turn-2"].userText)

-----------------------------------------------------------------------------
(* Properties of the store and the driver's lookup *)

(* C27: in every state reached through records and resets each RunOutcome's
   cacheKey is a key of the cache, so that get(getOutcome(runId).cacheKey)
   returns a deliverable, the driver's lookup after the run never finds an
   outcome without its deliverable, and the deliverable a record or a
   fallback returns is the cache entry under the cacheKey it returns. *)
OutcomeKeysAreCached ==
    /\ \A runId \in DOMAIN runOutcomeById :
          /\ runOutcomeById[runId].cacheKey \in DOMAIN deliverablesByKey
          /\ getEmailDeliverable(deliverablesByKey, getRunOutcome(runOutcomeById, runId)[1].cacheKey) # None
          /\ orchestratedResult(deliverablesByKey, runOutcomeById, runId)
               = Some([deliverable |-> deliverablesByKey[runOutcomeById[runId].cacheKey],
                       identicalToExisting |-> runOutcomeById[runId].identicalToExisting,
                       cacheKey |-> runOutcomeById[runId].cacheKey,
                       runId |-> runId])
    /\ (last.op \in {"record", "fallback"} /\ last.ret # None)
       => /\ last.ret[1].cacheKey \in DOMAIN deliverablesByKey
          /\ deliverablesByKey[last.ret[1].cacheKey] = last.ret[1].deliverable
    /\ \A i \in Invocations :
          (invocations[i].response # None /\ invocations[i].response[1].ok)
          => /\ invocations[i].response[1].cacheKey \in DOMAIN deliverablesByKey
             /\ deliverablesByKey[invocations[i].response[1].cacheKey]
                  = invocations[i].response[1].deliverable[1]

(* the outcome of a run was read back after both runs had recorded, and the
   cache holds the deliverable it names *)
OutcomeReadBackNamesEntry ==
    /\ last.op = "getOutcome"
    /\ last.ret # None
    /\ last.ret[1].identicalToExisting
    /\ DOMAIN runOutcomeById = RunIds
    /\ Cardinality(DOMAIN deliverablesByKey) >= 2
    /\ getEmailDeliverable(deliverablesByKey, last.ret[1].cacheKey) # None

-----------------------------------------------------------------------------
(* Properties of the driver's agent run *)

(* `await runner.run` of invocation i returns in this step *)
RunReturned(i) ==
    /\ invocations[i].pc = "awaiting"
    /\ invocations'[i].pc = "done"
    /\ invocations'[i].orchestration \in {"returned", "no-deliverable"}

(* C25: in an orchestrated invocation, if the agent run recorded a
   schema-valid deliverable, through the handoff's report_result or through
   the draft_email tool, the lookup under the driver's runId finds it and the
   driver returns it without the fallback. *)
RecordedDeliverableIsReturned ==
    [][\A i \in Invocations :
          (RunReturned(i) /\ invocations[i].recorded # {})
          => /\ invocations'[i].orchestration = "returned"
             /\ invocations'[i].response[1].ok
             /\ invocations'[i].response[1].fallbackUsed = None
             /\ invocations'[i].response[1].runId = invocations[i].runId
             /\ invocations'[i].response[1].deliverable[1] \in invocations[i].recorded]_vars

(* C26: one driver invocation adds at most one entry to the cache and at most
   one RunOutcome, also when the orchestrated path fails after the agent run
   recorded a deliverable and the driver falls back. *)
InvocationAddsAtMostOne ==
    \A i \in Invocations :
        /\ Cardinality(invocations[i].stored) <= 1
        /\ Cardinality(invocations[i].outcomes) <= 1

=============================================================================
